---------------------------- MODULE Spec2Model ----------------------------
(***************************************************************************)
(* Model of the static-analysis core of projectanalysis-mcp:               *)
(*   - HybridCacheManager   (src/src/utils/cache.ts)                       *)
(*   - FileUtils            (src/src/utils/file-utils.ts)                  *)
(*   - ProjectScanner and BaseLanguageAnalyzer                             *)
(*                          (src/src/core/project-scanner.ts)              *)
(*   - JavaScriptAnalyzer   (src/unnamed/part_002)                         *)
(*   - AnalyzerRegistry     (src/src/analyzers/index.ts)                   *)
(*   - AnalyzeProjectTool   (src/unnamed/part_007)                         *)
(* Each subsystem has its own specification over its own variables:        *)
(* SpecCacheTtl, SpecCacheOps, SpecCacheLru and SpecCacheHas, SpecPath,    *)
(* SpecAnalyze, SpecJs, SpecTree, SpecDetect, SpecRegistry, SpecTool.      *)
(***************************************************************************)
EXTENDS Integers, Sequences, FiniteSets, TLC

VARIABLES
    \* ---- HybridCacheManager ----
    now,            \* Date.now(), in milliseconds
    memoryCache,    \* tier 1: LRUCache, least recently used first
    nodeCache,      \* tier 2: NodeCache, hashed key -> [e, t]
    fileCache,      \* tier 3: <hashed key>.cache files, hashed key -> entry
    pendingWrites,  \* setToFileCache calls whose fs.writeFile has not settled
    getPending,     \* a get suspended at its tier-3 read (at most one)
    maint,          \* an invalidate/clear suspended before its file pass
    lastOp,         \* the public operation that returned in the last step
    nSets,          \* number of set calls so far
    clearState,     \* "none" | "clearing" | "cleared" | "clearedFsError"
    \* ---- FileUtils ----
    fu,             \* the FileUtils call that returned last: its operation,
                    \* path argument, events (validations and filesystem
                    \* syscalls, in order) and result
    \* ---- BaseLanguageAnalyzer ----
    fileCall,       \* the analyzeFile call that settled last
    batch,          \* the analyzeBatch call in progress or returned last
    \* ---- ProjectScanner ----
    tree,           \* the buildStructureTree call that settled last
    \* ---- AnalyzeProjectTool ----
    tool,           \* the analyze_project execution in progress, and the
                    \* last two that returned
    \* ---- JavaScriptAnalyzer ----
    js,             \* the JavaScriptAnalyzer call that settled last
    \* ---- ProjectScanner.detectProjectType ----
    detect,         \* the detectProjectType call that returned last
    \* ---- AnalyzerRegistry ----
    registry        \* the registry's two maps, the analyzers registered so
                    \* far and the lookup that returned last

cacheVars == <<now, memoryCache, nodeCache, fileCache, pendingWrites,
               getPending, maint, lastOp, nSets, clearState>>

pathVars == <<fu>>

analyzeVars == <<fileCall, batch>>

treeVars == <<tree>>

toolVars == <<tool>>

jsVars == <<js>>

detectVars == <<detect>>

registryVars == <<registry>>

vars ==
    <<cacheVars, pathVars, analyzeVars, treeVars, toolVars,
      jsVars, detectVars, registryVars>>

\* the variables of the other subsystems, which a subsystem leaves alone
exceptCache ==
    <<pathVars, analyzeVars, treeVars, toolVars, jsVars,
      detectVars, registryVars>>
exceptPath ==
    <<cacheVars, analyzeVars, treeVars, toolVars, jsVars,
      detectVars, registryVars>>
exceptAnalyze ==
    <<cacheVars, pathVars, treeVars, toolVars, jsVars,
      detectVars, registryVars>>
exceptTree ==
    <<cacheVars, pathVars, analyzeVars, toolVars, jsVars,
      detectVars, registryVars>>
\* the tool works on the cache
exceptTool ==
    <<pathVars, analyzeVars, treeVars, jsVars, detectVars,
      registryVars>>
exceptJs ==
    <<cacheVars, pathVars, analyzeVars, treeVars, toolVars,
      detectVars, registryVars>>
exceptDetect ==
    <<cacheVars, pathVars, analyzeVars, treeVars, toolVars,
      jsVars, registryVars>>
exceptRegistry ==
    <<cacheVars, pathVars, analyzeVars, treeVars, toolVars,
      jsVars, detectVars>>

-----------------------------------------------------------------------------
(* Bounds and configuration of the cache model *)

MaxTicks == 3              \* the clock stops after this many ticks
MaxSets == 2               \* set calls in one behaviour
MaxPending == 1            \* tier-3 writes in flight at once
maxMemorySize == 1         \* options.maxMemorySize of the modelled instance
memoryTtl == 1000          \* options.memoryTtl of the modelled instance
\* options.fileTtl of the modelled instance, in the proportion of the
\* defaults (30 minutes, 24 hours); no method reads it
fileTtl == 48 * memoryTtl
MsPerSecond == 1000        \* the / 1000 of the NodeCache TTL conversion
TickMs == MsPerSecond \div 2   \* granularity of the simulated clock

Keys == {"user:1", "job:7"}
\* the n-th set call stores the value n: values are opaque to the cache
Values == 1..MaxSets
\* the optional ttl argument of set: <<>> is "not given"
TtlArgs == {<<>>, <<0>>, <<2000>>}

\* crypto.createHash('sha256').update(key).digest('hex'): an injective map
\* from logical keys to digests; a digest never equals a logical key
HashKey(k) == CASE k = "user:1" -> "a3f1"
                [] k = "job:7"  -> "07bc"
                [] k = "analyze-project:/a:3" -> "5e2d"
                [] k = "analyze-project:/a:5" -> "c914"

Hashed == {HashKey(k) : k \in Keys}

\* the regular expressions handed to invalidate, each by the strings it matches
Patterns == {"^user:", "^a3", ".*", "("}
ValidRegex(p) == p # "("
RegexTest(p, s) == CASE p = "^user:" -> s = "user:1"
                     [] p = "^a3"    -> s = "a3f1"
                     [] p = ".*"     -> TRUE
                     [] OTHER        -> FALSE

EstimateSize(v) == 1       \* JSON.stringify(value).length

\* JSON.parse(JSON.stringify(entry)): strings and finite numbers survive
JsonRoundTrip(e) == [value |-> e.value, timestamp |-> e.timestamp,
                     ttl |-> e.ttl, accessCount |-> e.accessCount,
                     size |-> e.size]

EmptyMap == [h \in {} |-> 0]

\* mutant: an entry still counts as valid when exactly ttl has elapsed
IsValidEntryInclusive(e, t) == (t - e.timestamp) <= e.ttl

IsValidEntry(e, t) == (t - e.timestamp) < e.ttl

-----------------------------------------------------------------------------
(* lru-cache: { max, ttl: memoryTtl, updateAgeOnGet, updateAgeOnHas } *)

LruIndex(mc, hk) ==
    IF \E i \in 1..Len(mc) : mc[i].k = hk
    THEN CHOOSE i \in 1..Len(mc) : mc[i].k = hk
    ELSE 0

LruRemove(mc, hk) == SelectSeq(mc, LAMBDA r : r.k # hk)

LruStale(r, t) == memoryTtl # 0 /\ (t - r.start) > memoryTtl

\* the entry memoryCache.get(hk) returns, as a sequence of length <= 1
LruGetValue(mc, hk, t) ==
    LET i == LruIndex(mc, hk) IN
    IF i = 0 \/ LruStale(mc[i], t) THEN <<>> ELSE <<mc[i].e>>

\* the cache after memoryCache.get(hk): a stale entry is deleted, a live one
\* becomes most recently used and has its age reset
LruAfterGet(mc, hk, t) ==
    LET i == LruIndex(mc, hk) IN
    IF i = 0 THEN mc
    ELSE IF LruStale(mc[i], t) THEN LruRemove(mc, hk)
    ELSE Append(LruRemove(mc, hk), [k |-> hk, e |-> mc[i].e, start |-> t])

\* memoryCache.set(hk, e): replaces or appends, evicting the least recently
\* used entry when the cache is full
LruSet(mc, hk, e, t) ==
    LET rest == LruRemove(mc, hk)
        room == IF Len(rest) >= maxMemorySize THEN Tail(rest) ELSE rest
    IN Append(room, [k |-> hk, e |-> e, start |-> t])

\* the record memoryCache.set(hk, ...) evicts, as a sequence of length <= 1
LruEvicted(mc, hk) ==
    LET rest == LruRemove(mc, hk) IN
    IF Len(rest) >= maxMemorySize THEN <<Head(rest)>> ELSE <<>>

LruHas(mc, hk, t) ==
    LET i == LruIndex(mc, hk) IN i # 0 /\ ~LruStale(mc[i], t)

LruAfterHas(mc, hk, t) ==
    LET i == LruIndex(mc, hk) IN
    IF i # 0 /\ ~LruStale(mc[i], t)
    THEN [mc EXCEPT ![i].start = t]
    ELSE mc

\* memoryCache.keys(): stale entries are skipped
LruKeys(mc, t) == {mc[i].k : i \in {j \in 1..Len(mc) : ~LruStale(mc[j], t)}}

-----------------------------------------------------------------------------
(* node-cache: { stdTTL: floor(memoryTtl / 1000), checkperiod: 60 } *)

stdTTL == memoryTtl \div MsPerSecond

\* _wrap: ttl in seconds, <<>> when not given; t = 0 never expires
NodeLivetime(ttlArg, t) ==
    LET ttl == IF ttlArg = <<>> THEN stdTTL ELSE ttlArg[1] IN
    IF ttl = 0 THEN 0 ELSE t + ttl * MsPerSecond

NodeExpired(r, t) == r.t # 0 /\ r.t < t

NodeRemove(nc, hk) == [h \in DOMAIN nc \ {hk} |-> nc[h]]

NodeSet(nc, hk, e, ttlArg, t) ==
    [h \in DOMAIN nc \cup {hk} |->
        IF h = hk THEN [e |-> e, t |-> NodeLivetime(ttlArg, t)] ELSE nc[h]]

NodeGetValue(nc, hk, t) ==
    IF hk \in DOMAIN nc /\ ~NodeExpired(nc[hk], t) THEN <<nc[hk].e>> ELSE <<>>

\* get and has delete an expired key they touch (deleteOnExpire)
NodeAfterGet(nc, hk, t) ==
    IF hk \in DOMAIN nc /\ NodeExpired(nc[hk], t) THEN NodeRemove(nc, hk) ELSE nc

-----------------------------------------------------------------------------
(* HybridCacheManager *)

\* lastOp: op, its key (or pattern), result (a sequence of length <= 1),
\* the tier and entry that served a get, outcome "ok" | "threw" | "fsError",
\* after: the entry of the set on the same key that returned immediately
\* before this get was issued, touched: whether an in-memory tier changed,
\* during: the entry of the last set on the same key that ran while this
\* get was suspended at its tier-3 read, evicted: the tier-1 record a set
\* pushed out
NoOp == [op |-> "none", key |-> "", result |-> <<>>, tier |-> 0,
         entry |-> <<>>, outcome |-> "ok", after |-> <<>>, touched |-> FALSE,
         during |-> <<>>, evicted |-> <<>>]

InitCache ==
    /\ now = 0
    /\ memoryCache = <<>>
    /\ nodeCache = EmptyMap
    /\ fileCache = EmptyMap
    /\ pendingWrites = {}
    /\ getPending = <<>>
    /\ maint = <<>>
    /\ lastOp = NoOp
    /\ nSets = 0
    /\ clearState = "none"

\* what tier 1 holds, without recency and age
MemEntries(mc) == {[k |-> mc[i].k, e |-> mc[i].e] : i \in 1..Len(mc)}

\* whether going to mc, nc changes what the in-memory tiers hold
MemChanged(mc, nc) ==
    MemEntries(mc) # MemEntries(memoryCache) \/ nc # nodeCache

\* set(key, value, ttl?): tiers 1 and 2 synchronously, the tier-3 write is
\* started and not awaited
Set(k, ttlArg) ==
    LET hk == HashKey(k)
        effectiveTtl == IF ttlArg = <<>> THEN memoryTtl ELSE ttlArg[1]
        v == nSets + 1
        entry == [value |-> v, timestamp |-> now, ttl |-> effectiveTtl,
                  accessCount |-> 1, size |-> EstimateSize(v)]
    IN
    /\ nSets < MaxSets
    /\ nSets' = nSets + 1
    /\ Cardinality(pendingWrites) < MaxPending
    /\ memoryCache' = LruSet(memoryCache, hk, entry, now)
    /\ nodeCache' = NodeSet(nodeCache, hk, entry,
                            <<effectiveTtl \div MsPerSecond>>, now)
    /\ pendingWrites' = pendingWrites \cup {[key |-> hk, entry |-> entry]}
    /\ lastOp' = [NoOp EXCEPT !.op = "set", !.key = k, !.entry = <<entry>>,
                              !.evicted = LruEvicted(memoryCache, hk)]
    /\ clearState' = "none"
    /\ maint' = IF maint = <<>> THEN maint
                ELSE <<[maint[1] EXCEPT !.dirty = TRUE]>>
    /\ getPending' = IF getPending # <<>> /\ getPending[1].key = k
                     THEN <<[getPending[1] EXCEPT !.during = <<entry>>]>>
                     ELSE getPending
    /\ UNCHANGED <<now, fileCache>>

\* setToFileCache: fs.writeFile settles; a failure is caught and logged
FileWriteDone(w) ==
    /\ w \in pendingWrites
    /\ pendingWrites' = pendingWrites \ {w}
    /\ fileCache' = [h \in DOMAIN fileCache \cup {w.key} |->
                        IF h = w.key THEN JsonRoundTrip(w.entry)
                        ELSE fileCache[h]]
    /\ UNCHANGED <<now, memoryCache, nodeCache, getPending, maint,
                   clearState>>
    /\ lastOp' = NoOp
    /\ nSets' = nSets

FileWriteFail(w) ==
    /\ w \in pendingWrites
    /\ pendingWrites' = pendingWrites \ {w}
    /\ UNCHANGED <<now, memoryCache, nodeCache, fileCache, getPending, maint, clearState>>
    /\ lastOp' = NoOp
    /\ nSets' = nSets

\* mutant: tier 2 is consulted before tier 1
GetTierNodeFirst(mc, nc, hk, t) ==
    LET m == LruGetValue(mc, hk, t)
        n == NodeGetValue(nc, hk, t)
    IN IF n # <<>> /\ IsValidEntry(n[1], t) THEN 2
       ELSE IF m # <<>> /\ IsValidEntry(m[1], t) THEN 1
       ELSE 0

\* which tier answers the synchronous part of get: 1, 2, or 0 (go to tier 3)
GetTier(mc, nc, hk, t) ==
    LET m == LruGetValue(mc, hk, t)
        n == NodeGetValue(nc, hk, t)
    IN IF m # <<>> /\ IsValidEntry(m[1], t) THEN 1
       ELSE IF n # <<>> /\ IsValidEntry(n[1], t) THEN 2
       ELSE 0

\* tier 1 after the synchronous part of get (lines 79-92)
GetMemoryAfter(mc, nc, hk, t) ==
    IF GetTier(mc, nc, hk, t) = 2
    THEN LruSet(LruAfterGet(mc, hk, t), hk, NodeGetValue(nc, hk, t)[1], t)
    ELSE LruAfterGet(mc, hk, t)

\* tier 2 after the synchronous part of get: consulted only on a tier-1 miss
GetNodeAfter(mc, nc, hk, t) ==
    IF GetTier(mc, nc, hk, t) = 1 THEN nc ELSE NodeAfterGet(nc, hk, t)

\* the entry of the set(k, ...) that returned in the previous step, if any
After(k) == IF lastOp.op = "set" /\ lastOp.key = k THEN lastOp.entry ELSE <<>>

\* get(key), up to its return or its suspension at the tier-3 read
GetBegin(k) ==
    LET hk == HashKey(k)
        tier == GetTier(memoryCache, nodeCache, hk, now)
        mc2 == GetMemoryAfter(memoryCache, nodeCache, hk, now)
        nc2 == GetNodeAfter(memoryCache, nodeCache, hk, now)
        hit == IF tier = 1 THEN LruGetValue(memoryCache, hk, now)
               ELSE NodeGetValue(nodeCache, hk, now)
    IN
    /\ getPending = <<>>
    /\ memoryCache' = mc2
    /\ nodeCache' = nc2
    /\ IF tier # 0
       THEN /\ lastOp' = [NoOp EXCEPT !.op = "get", !.key = k,
                                      !.result = <<hit[1].value>>,
                                      !.tier = tier, !.entry = hit,
                                      !.after = After(k),
                                      !.touched = MemChanged(mc2, nc2)]
            /\ getPending' = getPending
       ELSE /\ getPending' = <<[key |-> k, phase |-> "read", entry |-> <<>>,
                                after |-> After(k),
                                touched |-> MemChanged(mc2, nc2),
                                during |-> <<>>]>>
            /\ lastOp' = NoOp
    /\ UNCHANGED <<now, fileCache, pendingWrites, maint, clearState>>
    /\ nSets' = nSets

\* getFromFileCache: fs.readFile settles (ok = FALSE: it rejected, or the
\* content did not parse)
GetFileRead(ok) ==
    /\ getPending # <<>>
    /\ getPending[1].phase = "read"
    /\ LET hk == HashKey(getPending[1].key)
           found == ok /\ hk \in DOMAIN fileCache
       IN getPending' =
            <<[getPending[1] EXCEPT
                !.phase = IF ~found THEN "miss"
                          ELSE IF IsValidEntry(fileCache[hk], now) THEN "hit"
                          ELSE "unlink",
                !.entry = IF found THEN <<fileCache[hk]>> ELSE <<>>]>>
    /\ UNCHANGED <<now, memoryCache, nodeCache, fileCache, pendingWrites,
                   maint, clearState>>
    /\ lastOp' = NoOp
    /\ nSets' = nSets

\* get resumes after the tier-3 read (lines 97-109); an expired file has been
\* unlinked by getFromFileCache before it returned null
GetFinish ==
    /\ getPending # <<>>
    /\ getPending[1].phase # "read"
    /\ LET g == getPending[1]
           hk == HashKey(g.key)
           hit == g.phase = "hit" /\ IsValidEntry(g.entry[1], now)
           nc2 == IF hit THEN NodeSet(nodeCache, hk, g.entry[1], <<>>, now)
                  ELSE nodeCache
           mc2 == IF hit THEN LruSet(memoryCache, hk, g.entry[1], now)
                  ELSE memoryCache
       IN
       /\ nodeCache' = nc2
       /\ memoryCache' = mc2
       /\ fileCache' = IF g.phase = "unlink"
                       THEN [h \in DOMAIN fileCache \ {hk} |-> fileCache[h]]
                       ELSE fileCache
       /\ lastOp' = [NoOp EXCEPT
                        !.op = "get", !.key = g.key,
                        !.result = IF hit THEN <<g.entry[1].value>> ELSE <<>>,
                        !.tier = IF hit THEN 3 ELSE 0,
                        !.entry = IF hit THEN g.entry ELSE <<>>,
                        !.after = g.after,
                        !.touched = g.touched \/ MemChanged(mc2, nc2),
                        !.during = g.during]
    /\ getPending' = <<>>
    /\ UNCHANGED <<now, pendingWrites, maint, clearState>>
    /\ nSets' = nSets

FileExists(ok, hk) == ok /\ hk \in DOMAIN fileCache

\* has(key); ok = FALSE: fs.access rejected
Has(k, ok) ==
    LET hk == HashKey(k)
        inMem == LruHas(memoryCache, hk, now)
        inNode == hk \in DOMAIN nodeCache /\ ~NodeExpired(nodeCache[hk], now)
        answer == inMem \/ inNode \/ FileExists(ok, hk)
    IN
    /\ memoryCache' = LruAfterHas(memoryCache, hk, now)
    /\ nodeCache' = IF inMem THEN nodeCache
                    ELSE NodeAfterGet(nodeCache, hk, now)
    /\ lastOp' = [NoOp EXCEPT !.op = "has", !.key = k,
                              !.result = <<answer>>]
    /\ UNCHANGED <<now, fileCache, pendingWrites, getPending, maint,
                   clearState>>
    /\ nSets' = nSets

Max3(a, b, c) ==
    IF a >= b /\ a >= c THEN a ELSE IF b >= c THEN b ELSE c

\* size(); ok = FALSE: fs.readdir rejected
Size(ok) ==
    LET fileSize == IF ok THEN Cardinality(DOMAIN fileCache) ELSE 0 IN
    /\ lastOp' = [NoOp EXCEPT
                    !.op = "size", 
                    !.result = <<Max3(Len(memoryCache),
                                      Cardinality(DOMAIN nodeCache),
                                      fileSize)>>]
    /\ UNCHANGED <<now, memoryCache, nodeCache, fileCache, pendingWrites,
                   getPending, maint, clearState>>
    /\ nSets' = nSets

\* invalidate(pattern), up to the await of invalidateFileCache; new RegExp
\* throws on a malformed pattern and the call rejects
InvalidateBegin(p) ==
    /\ maint = <<>>
    /\ IF ~ValidRegex(p)
       THEN /\ lastOp' = [NoOp EXCEPT !.op = "invalidate", !.key = p,
                                      !.outcome = "threw"]
            /\ UNCHANGED <<memoryCache, nodeCache, maint>>
       ELSE /\ memoryCache' =
                 SelectSeq(memoryCache,
                           LAMBDA r : ~(r.k \in LruKeys(memoryCache, now)
                                        /\ RegexTest(p, r.k)))
            /\ nodeCache' = [h \in {x \in DOMAIN nodeCache : ~RegexTest(p, x)}
                               |-> nodeCache[h]]
            /\ maint' = <<[op |-> "invalidate", pattern |-> p,
                           dirty |-> FALSE]>>
            /\ lastOp' = NoOp
    /\ UNCHANGED <<now, fileCache, pendingWrites, getPending, clearState>>
    /\ nSets' = nSets

\* invalidateFileCache: readdir, then unlink of every matching <key>.cache;
\* ok = FALSE: readdir rejected (caught and logged)
InvalidateFiles(ok) ==
    /\ maint # <<>>
    /\ maint[1].op = "invalidate"
    /\ fileCache' = IF ok
                    THEN [h \in {x \in DOMAIN fileCache :
                                    ~RegexTest(maint[1].pattern, x)}
                            |-> fileCache[h]]
                    ELSE fileCache
    /\ lastOp' = [NoOp EXCEPT !.op = "invalidate", !.key = maint[1].pattern,
                             
                              !.outcome = IF ok THEN "ok" ELSE "fsError",
                              !.touched = maint[1].dirty]
    /\ maint' = <<>>
    /\ UNCHANGED <<now, memoryCache, nodeCache, pendingWrites, getPending,
                   clearState>>
    /\ nSets' = nSets

\* clear(), up to the await of clearFileCache
ClearBegin ==
    /\ maint = <<>>
    /\ memoryCache' = <<>>
    /\ nodeCache' = EmptyMap
    /\ maint' = <<[op |-> "clear", pattern |-> "", dirty |-> FALSE]>>
    /\ clearState' = "clearing"
    /\ UNCHANGED <<now, fileCache, pendingWrites, getPending>>
    /\ lastOp' = NoOp
    /\ nSets' = nSets

\* clearFileCache: readdir, then unlink of every *.cache file
ClearFiles(ok) ==
    /\ maint # <<>>
    /\ maint[1].op = "clear"
    /\ fileCache' = IF ok THEN EmptyMap ELSE fileCache
    /\ lastOp' = [NoOp EXCEPT !.op = "clear",
                              !.outcome = IF ok THEN "ok" ELSE "fsError",
                              !.touched = maint[1].dirty]
    /\ clearState' = IF clearState # "clearing" THEN clearState
                     ELSE IF ok THEN "cleared" ELSE "clearedFsError"
    /\ maint' = <<>>
    /\ UNCHANGED <<now, memoryCache, nodeCache, pendingWrites, getPending>>
    /\ nSets' = nSets

\* time passes
Tick ==
    /\ now < MaxTicks * TickMs
    /\ now' = now + TickMs
    /\ UNCHANGED <<memoryCache, nodeCache, fileCache, pendingWrites,
                   getPending, maint, clearState>>
    /\ lastOp' = NoOp
    /\ nSets' = nSets

\* the process sits idle for a whole memoryTtl
Idle ==
    /\ now < MaxTicks * TickMs
    /\ now' = now + memoryTtl
    /\ UNCHANGED <<memoryCache, nodeCache, fileCache, pendingWrites,
                   getPending, maint, clearState>>
    /\ lastOp' = NoOp
    /\ nSets' = nSets

\* NodeCache's checkperiod timer: every expired key is deleted
NodeSweep ==
    /\ \E h \in DOMAIN nodeCache : NodeExpired(nodeCache[h], now)
    /\ nodeCache' = [h \in {x \in DOMAIN nodeCache :
                              ~NodeExpired(nodeCache[x], now)}
                       |-> nodeCache[h]]
    /\ UNCHANGED <<now, memoryCache, fileCache, pendingWrites, getPending,
                   maint, clearState>>
    /\ lastOp' = NoOp
    /\ nSets' = nSets

\* a new process constructs a HybridCacheManager over the same cache
\* directory: both in-memory tiers start empty, the files remain, and what
\* the old process had in flight is gone
Restart ==
    /\ memoryCache' = <<>>
    /\ nodeCache' = EmptyMap
    /\ pendingWrites' = {}
    /\ getPending' = <<>>
    /\ maint' = <<>>
    /\ lastOp' = NoOp
    /\ UNCHANGED <<now, fileCache, nSets, clearState>>

-----------------------------------------------------------------------------
(* FileUtils: paths are sequences of characters *)

MaxPathLen == 4            \* longest path argument tried

NUL == "\\0"
PathChars == {".", "/", "a", NUL}

RECURSIVE PathsOfLen(_)
PathsOfLen(n) ==
    IF n = 0 THEN {<<>>}
    ELSE {Append(q, c) : q \in PathsOfLen(n - 1), c \in PathChars}

Paths == UNION {PathsOfLen(n) : n \in 0..MaxPathLen}

\* process.cwd(), and options.allowedBasePaths ?? [process.cwd()]
Cwd == <<"/", "a">>
allowedBasePaths == {Cwd}

\* String.prototype.includes / startsWith
Includes(str, sub) ==
    \E i \in 0..(Len(str) - Len(sub)) :
        \A j \in 1..Len(sub) : str[i + j] = sub[j]

StartsWith(str, prefix) ==
    /\ Len(prefix) <= Len(str)
    /\ \A j \in 1..Len(prefix) : str[j] = prefix[j]

\* str.split("/"): the segments between slashes, empty ones included
RECURSIVE SplitSlash(_, _)
SplitSlash(str, cur) ==
    IF str = <<>> THEN <<cur>>
    ELSE IF Head(str) = "/" THEN <<cur>> \o SplitSlash(Tail(str), <<>>)
    ELSE SplitSlash(Tail(str), Append(cur, Head(str)))

Segments(str) == SplitSlash(str, <<>>)

\* normalizeString of path.resolve: "" and "." segments vanish, ".." pops
RECURSIVE NormalizeSegs(_, _)
NormalizeSegs(segs, acc) ==
    IF segs = <<>> THEN acc
    ELSE LET sg == Head(segs) IN
         IF sg = <<>> \/ sg = <<".">> THEN NormalizeSegs(Tail(segs), acc)
         ELSE IF sg = <<".", ".">>
              THEN NormalizeSegs(Tail(segs),
                                 IF acc = <<>> THEN acc
                                 ELSE SubSeq(acc, 1, Len(acc) - 1))
         ELSE NormalizeSegs(Tail(segs), Append(acc, sg))

RECURSIVE JoinSlash(_)
JoinSlash(segs) ==
    IF segs = <<>> THEN <<>>
    ELSE <<"/">> \o Head(segs) \o JoinSlash(Tail(segs))

\* path.resolve(p) on POSIX: absolute, normalized, no trailing slash
Resolve(str) ==
    LET abs == IF str # <<>> /\ Head(str) = "/" THEN str
               ELSE Cwd \o <<"/">> \o str
        segs == NormalizeSegs(Segments(abs), <<>>)
    IN IF segs = <<>> THEN <<"/">> ELSE JoinSlash(segs)

Invalid(msg) == [isValid |-> FALSE, normalizedPath |-> <<>>, error |-> msg]

\* mutant: the traversal test is left out
ValidatePathNoTraversalTest(inputPath) ==
    IF inputPath = <<>> THEN Invalid("Path must be a non-empty string")
    ELSE LET normalizedPath == Resolve(inputPath) IN
         IF \E basePath \in allowedBasePaths :
                StartsWith(normalizedPath, Resolve(basePath))
         THEN [isValid |-> TRUE, normalizedPath |-> normalizedPath,
               error |-> ""]
         ELSE Invalid("Access denied: path outside allowed directories")

\* FileUtils.validatePath: no filesystem call on any path through it
ValidatePath(inputPath) ==
    IF inputPath = <<>> THEN Invalid("Path must be a non-empty string")
    ELSE IF Includes(inputPath, <<".", ".">>) \/ Includes(inputPath, <<NUL>>)
    THEN Invalid("Path traversal detected")
    ELSE LET normalizedPath == Resolve(inputPath) IN
         IF \E basePath \in allowedBasePaths :
                StartsWith(normalizedPath, Resolve(basePath))
         THEN [isValid |-> TRUE, normalizedPath |-> normalizedPath,
               error |-> ""]
         ELSE Invalid("Access denied: path outside allowed directories")

EvValidate(path, v) ==
    [kind |-> "validate", call |-> "validatePath", path |-> path,
     ok |-> v.isValid]
EvSyscall(call, path, ok) ==
    [kind |-> "syscall", call |-> call, path |-> path, ok |-> ok]

FuIdle == [op |-> "none", path |-> <<>>, events |-> <<>>,
           outcome |-> "none", validation |-> Invalid("")]

InitPath == fu = FuIdle

\* one call per behaviour, from the idle state
\* validatePath called on its own
ValidatePathCall(p) ==
    /\ fu = FuIdle
    /\ fu' = [op |-> "validatePath", path |-> p,
              events |-> <<EvValidate(p, ValidatePath(p))>>,
              outcome |-> "returned", validation |-> ValidatePath(p)]

\* getAllFiles, getFileInfo, getDirectoryInfo, readFile: validatePath first,
\* a SecurityError when it rejects, then the filesystem call on the
\* normalized path (fsOk = FALSE: it rejected)
GuardedOps == {"getAllFiles", "getFileInfo", "getDirectoryInfo", "readFile"}
FirstSyscall(op) == CASE op = "getAllFiles" -> "glob"
                      [] op = "getFileInfo" -> "stat"
                      [] op = "getDirectoryInfo" -> "stat"
                      [] op = "readFile" -> "readFile"

GuardedCall(op, p, fsOk) ==
    LET v == ValidatePath(p) IN
    /\ fu = FuIdle
    /\ op \in GuardedOps
    /\ fu' = IF ~v.isValid
             THEN [op |-> op, path |-> p, events |-> <<EvValidate(p, v)>>,
                   outcome |-> "SecurityError", validation |-> v]
             ELSE [op |-> op, path |-> p,
                   events |-> <<EvValidate(p, v),
                                EvSyscall(FirstSyscall(op), v.normalizedPath,
                                          fsOk)>>,
                   outcome |-> IF fsOk THEN "returned" ELSE "fsError",
                   validation |-> v]

\* exists, isDirectory, isFile: fs.access / fs.stat on the argument as given;
\* a rejection becomes the answer false
UnguardedOps == {"exists", "isDirectory", "isFile"}

UnguardedCall(op, p, fsOk) ==
    /\ fu = FuIdle
    /\ op \in UnguardedOps
    /\ fu' = [op |-> op, path |-> p,
              events |-> <<EvSyscall(IF op = "exists" THEN "access"
                                     ELSE "stat", p, fsOk)>>,
              outcome |-> "returned", validation |-> Invalid("")]

-----------------------------------------------------------------------------
(* BaseLanguageAnalyzer (as JavaScriptAnalyzer): analyzeFile, analyzeBatch *)

MaxBatch == 5              \* longest filePaths list given to analyzeBatch
concurrency == 4           \* const concurrency = 4 of analyzeBatch

language == "javascript"
supportedExtensions == {".js", ".jsx", ".mjs", ".cjs"}

\* a file path is the sequence of its dot-separated pieces, every piece
\* after the first written with its leading dot
EmptyJs == <<"empty", ".js">>
AppJs == <<"app", ".js">>
BadJs == <<"bad", ".js">>
GoneJs == <<"gone", ".js">>
NotesMd == <<"notes", ".md">>
FilePaths == {EmptyJs, AppJs, BadJs, GoneJs, NotesMd}

\* the files on disk: whether fs.readFile succeeds, the content as the
\* sequence of syntax nodes it holds, and whether parser.parse accepts it
Disk ==
    [p \in FilePaths |->
        CASE p = EmptyJs -> [readable |-> TRUE, content |-> <<>>,
                             parses |-> TRUE]
          [] p = AppJs   -> [readable |-> TRUE,
                             content |-> <<"import_statement",
                                           "function_declaration",
                                           "if_statement">>,
                             parses |-> TRUE]
          [] p = BadJs   -> [readable |-> TRUE, content |-> <<"if_statement">>,
                             parses |-> FALSE]
          [] p = GoneJs  -> [readable |-> FALSE, content |-> <<>>,
                             parses |-> TRUE]
          [] p = NotesMd -> [readable |-> TRUE, content |-> <<>>,
                             parses |-> TRUE]]

\* filePath.match(/\.[^.]+$/)?.[0] ?? ''
GetFileExtension(filePath) ==
    IF Len(filePath) > 1 THEN filePath[Len(filePath)] ELSE ""

IsSupported(filePath) == GetFileExtension(filePath) \in supportedExtensions

\* the nodes of the given type, in source order
NodesOfType(content, type) ==
    SelectSeq(content, LAMBDA n : n = type)

\* const decisionTypes = [...] of isDecisionPoint
decisionTypes ==
    {"if_statement", "while_statement", "for_statement", "for_in_statement",
     "for_of_statement", "switch_case", "catch_clause",
     "conditional_expression", "logical_expression"}

IsDecisionPoint(type) == type \in decisionTypes

GetCognitiveWeight(type) ==
    CASE type = "catch_clause" -> 2
      [] type \in decisionTypes \ {"catch_clause"} -> 1
      [] OTHER -> 0

RECURSIVE CognitiveComplexity(_)
CognitiveComplexity(content) ==
    IF content = <<>> THEN 0
    ELSE GetCognitiveWeight(Head(content)) + CognitiveComplexity(Tail(content))

\* the metrics calculateComplexity returns from its catch block
FailedComplexity == [cyclomatic |-> 0, cognitive |-> 0]

\* the traversal of calculateComplexity over the types of the visited
\* nodes: base complexity 1, plus one per decision point (the Halstead part
\* of the metrics is left out)
CalculateComplexity(content) ==
    [cyclomatic |-> 1 + Len(SelectSeq(content, IsDecisionPoint)),
     cognitive |-> CognitiveComplexity(content)]

CreateEmptyAnalysis(filePath) ==
    [filePath |-> filePath, language |-> language, ast |-> <<>>,
     dependencies |-> <<>>, exports |-> <<>>, imports |-> <<>>,
     metrics |-> [cyclomatic |-> 0, cognitive |-> 0],
     functions |-> <<>>, classes |-> <<>>, variables |-> <<>>,
     comments |-> <<>>]

Rejected(filePath, cause) ==
    [status |-> "rejected", filePath |-> filePath, parsed |-> FALSE,
     value |-> <<>>,
     reason |-> <<[name |-> "AnalysisError", code |-> "FILE_ANALYSIS_ERROR",
                   details |-> cause]>>]

Fulfilled(filePath, parsed, analysis) ==
    [status |-> "fulfilled", filePath |-> filePath, parsed |-> parsed,
     value |-> <<analysis>>, reason |-> <<>>]

\* what a readFile(filePath) issued while the analysis is running can see:
\* the file as it was, a rewritten file, or no file
Rewritten ==
    [readable |-> TRUE, content |-> <<"while_statement", "if_statement">>,
     parses |-> TRUE]

Removed == [readable |-> FALSE, content |-> <<>>, parses |-> TRUE]

Versions(filePath) == {Disk[filePath], Rewritten, Removed}

\* extractDependencies(filePath): its own readFile and parse; [] from its
\* catch block
DependenciesOfVersion(version) ==
    IF version.readable /\ version.parses
    THEN NodesOfType(version.content, "import_statement")
    ELSE <<>>

\* calculateComplexity(filePath): its own readFile and parse
ComplexityOfVersion(version) ==
    IF version.readable /\ version.parses
    THEN CalculateComplexity(version.content)
    ELSE FailedComplexity

\* how the promise of analyzeFile(filePath) settles when its readFile sees
\* first, and the readFile of extractDependencies and of calculateComplexity
\* see forDeps and forMetrics
AnalyzeFileOn(filePath, first, forDeps, forMetrics) ==
    IF ~IsSupported(filePath) THEN
        Rejected(filePath, "Unsupported file extension")
    ELSE IF ~first.readable THEN
        Rejected(filePath, "ENOENT")
    ELSE IF Len(first.content) = 0 THEN
        Fulfilled(filePath, FALSE, CreateEmptyAnalysis(filePath))
    ELSE IF ~first.parses THEN
        Rejected(filePath, "parse failed")
    ELSE
        LET content == first.content IN
        Fulfilled(filePath, TRUE,
            [filePath |-> filePath, language |-> language,
             ast |-> <<content>>,
             dependencies |-> DependenciesOfVersion(forDeps),
             exports |-> <<>>,
             imports |-> NodesOfType(content, "import_statement"),
             metrics |-> ComplexityOfVersion(forMetrics),
             functions |-> NodesOfType(content, "function_declaration"),
             classes |-> <<>>, variables |-> <<>>, comments |-> <<>>])

\* the readFile and parser.parse calls one analyzeFile makes
ReadsOf(filePath, first) ==
    IF ~IsSupported(filePath) THEN 0
    ELSE IF ~first.readable \/ Len(first.content) = 0 \/ ~first.parses THEN 1
    ELSE 3

ParsesOf(filePath, first, forDeps, forMetrics) ==
    IF ~IsSupported(filePath) \/ ~first.readable \/ Len(first.content) = 0
    THEN 0
    ELSE IF ~first.parses THEN 1
    ELSE 1 + (IF forDeps.readable THEN 1 ELSE 0)
           + (IF forMetrics.readable THEN 1 ELSE 0)

\* how the promise of analyzeFile(filePath) settles when the file is left
\* alone
AnalyzeFile(filePath) ==
    AnalyzeFileOn(filePath, Disk[filePath], Disk[filePath], Disk[filePath])

FileCallIdle == [op |-> "none", settled |-> <<>>, reads |-> 0, parses |-> 0]

\* inFlight: the analyzeFile calls of the current chunk that have not
\* settled yet
BatchIdle ==
    [phase |-> "idle", filePaths |-> <<>>, chunks |-> <<>>, next |-> 1,
     inFlight |-> 0, results |-> <<>>, errors |-> <<>>]

InitAnalyze ==
    /\ fileCall = FileCallIdle
    /\ batch = BatchIdle

AnalyzerIdle == fileCall = FileCallIdle /\ batch = BatchIdle

\* one call of analyzeFile, from start to settlement
AnalyzeFileCall(filePath, forDeps, forMetrics) ==
    LET first == Disk[filePath] IN
    /\ fileCall' = [op |-> "analyzeFile",
                    settled |-> <<AnalyzeFileOn(filePath, first, forDeps,
                                                forMetrics)>>,
                    reads |-> ReadsOf(filePath, first),
                    parses |-> ParsesOf(filePath, first, forDeps,
                                        forMetrics)]
    /\ UNCHANGED batch

\* chunkArray(array, chunkSize): array.slice(i, i + chunkSize) for
\* i = 0, chunkSize, 2 * chunkSize, ... below array.length
RECURSIVE ChunkArray(_, _)
ChunkArray(array, chunkSize) ==
    IF Len(array) = 0 THEN <<>>
    ELSE IF Len(array) <= chunkSize THEN <<array>>
    ELSE <<SubSeq(array, 1, chunkSize)>>
         \o ChunkArray(SubSeq(array, chunkSize + 1, Len(array)), chunkSize)

RECURSIVE PushFulfilledUntilRejected(_, _)
PushFulfilledUntilRejected(results, chunkResults) ==
    IF chunkResults = <<>> \/ Head(chunkResults).status # "fulfilled"
    THEN results
    ELSE PushFulfilledUntilRejected(
             Append(results, Head(chunkResults).value[1]),
             Tail(chunkResults))

\* chunkResults.forEach: results.push(result.value) for the fulfilled ones
RECURSIVE PushFulfilled(_, _)
PushFulfilled(results, chunkResults) ==
    IF chunkResults = <<>> THEN results
    ELSE PushFulfilled(
             IF Head(chunkResults).status = "fulfilled"
             THEN Append(results, Head(chunkResults).value[1])
             ELSE results,
             Tail(chunkResults))

\* chunkResults.forEach: errors.push({ filePath, error }) for the rejected
RECURSIVE PushRejected(_, _)
PushRejected(errors, chunkResults) ==
    IF chunkResults = <<>> THEN errors
    ELSE PushRejected(
             IF Head(chunkResults).status = "rejected"
             THEN Append(errors, [filePath |-> Head(chunkResults).filePath,
                                  error |-> Head(chunkResults).reason[1]])
             ELSE errors,
             Tail(chunkResults))

\* the lists given to analyzeBatch: a file that succeeds after parsing, one
\* that succeeds without, one that cannot be parsed and one that cannot be read
BatchPaths == {AppJs, EmptyJs, BadJs, GoneJs}
BatchInputs == UNION {[1..n -> BatchPaths] : n \in 0..MaxBatch}

\* chunk.map(filePath => this.analyzeFile(filePath)): how many calls the
\* n-th iteration of the loop starts
StartedBy(chunks, n) == IF n <= Len(chunks) THEN Len(chunks[n]) ELSE 0

\* analyzeBatch(filePaths) up to its first await: the calls of the first
\* chunk are started
AnalyzeBatchBegin(filePaths) ==
    LET chunks == ChunkArray(filePaths, concurrency)
    IN  /\ batch' = [phase |-> "running", filePaths |-> filePaths,
                     chunks |-> chunks, next |-> 1,
                     inFlight |-> StartedBy(chunks, 1),
                     results |-> <<>>, errors |-> <<>>]
        /\ UNCHANGED fileCall

\* one of the analyzeFile calls in flight settles
FileSettled ==
    /\ batch.phase = "running"
    /\ batch.inFlight > 0
    /\ batch' = [batch EXCEPT !.inFlight = @ - 1]
    /\ UNCHANGED fileCall

\* mutant: the await resumes as soon as one call of the chunk has settled
ChunkSettledAfterFirst ==
    /\ batch.phase = "running"
    /\ batch.next <= Len(batch.chunks)
    /\ batch.inFlight < Len(batch.chunks[batch.next])
    /\ LET chunk == batch.chunks[batch.next]
           chunkResults == [i \in 1..Len(chunk) |-> AnalyzeFile(chunk[i])]
       IN  batch' = [batch EXCEPT
                        !.next = @ + 1,
                        !.inFlight = @ + StartedBy(batch.chunks,
                                                   batch.next + 1),
                        !.results = PushFulfilled(@, chunkResults),
                        !.errors = PushRejected(@, chunkResults)]
    /\ UNCHANGED fileCall

\* await Promise.allSettled(chunk.map(analyzeFile)) resumes, every call of
\* the chunk having settled: the chunk's outcomes, in the chunk's order,
\* are distributed on results and errors, and the next iteration starts
\* the calls of the next chunk
ChunkSettled ==
    /\ batch.phase = "running"
    /\ batch.next <= Len(batch.chunks)
    /\ batch.inFlight = 0
    /\ LET chunk == batch.chunks[batch.next]
           chunkResults == [i \in 1..Len(chunk) |-> AnalyzeFile(chunk[i])]
       IN  batch' = [batch EXCEPT
                        !.next = @ + 1,
                        !.inFlight = StartedBy(batch.chunks, batch.next + 1),
                        !.results = PushFulfilled(@, chunkResults),
                        !.errors = PushRejected(@, chunkResults)]
    /\ UNCHANGED fileCall

\* the for loop over the chunks is exhausted: return results
AnalyzeBatchReturn ==
    /\ batch.phase = "running"
    /\ batch.next > Len(batch.chunks)
    /\ batch' = [batch EXCEPT !.phase = "returned"]
    /\ UNCHANGED fileCall

NextAnalyze ==
    \/ /\ AnalyzerIdle
       /\ \E filePath \in FilePaths :
            \E forDeps, forMetrics \in Versions(filePath) :
                AnalyzeFileCall(filePath, forDeps, forMetrics)
    \/ /\ AnalyzerIdle
       /\ \E filePaths \in BatchInputs : AnalyzeBatchBegin(filePaths)
    \/ FileSettled
    \/ ChunkSettled
    \/ AnalyzeBatchReturn

-----------------------------------------------------------------------------
(* JavaScriptAnalyzer: extractDependencies and calculateComplexity over the *)
(* syntax trees of tree-sitter-javascript                                   *)

MaxStatements == 3         \* most statements of an analysed file

\* texts are sequences of characters
RequireText == <<"r", "e", "q", "u", "i", "r", "e">>
ImportText == <<"i", "m", "p", "o", "r", "t">>
QuoteChars == {"'", "\""}

\* module specifiers
DotA == <<".", "/", "a">>
DotDotB == <<".", ".", "/", "b">>
AbsC == <<"/", "a", "b", "s", "/", "c">>
Lodash == <<"l", "o", "d", "a", "s", "h">>
ScopedPkg == <<"@", "s", "c", "o", "p", "e", "/", "p", "k", "g">>
DriveX == <<"C", ":", "/", "x">>
Specifiers == {DotA, DotDotB, AbsC, Lodash, ScopedPkg, DriveX}

\* the statements of the analysed files: what the statement is, what its
\* first argument is ("string", "identifier" or "none") and that
\* argument's text
Stmt(kind, arg, text) == [kind |-> kind, arg |-> arg, text |-> text]

Statements ==
    {Stmt("import", "string", s) : s \in Specifiers}
        \cup {Stmt("require", "string", DotA),
              Stmt("require", "identifier", <<"n">>),
              Stmt("require", "none", <<>>),
              Stmt("dynamicImport", "string", DotA)}
        \cup {Stmt(k, "none", <<>>) : k \in {"if", "for", "ternary", "while"}}

Programs == UNION {[1..n -> Statements] : n \in 0..MaxStatements}

\* process.platform, as far as path.isAbsolute depends on it
Platforms == {"posix", "win32"}

\* --- Parser.SyntaxNode ---
\* a node has a type, its children (anonymous tokens included, as child(i)
\* and childCount see them) and the child each field name stands for (0:
\* none); a leaf carries its text
NoFields == [function |-> 0, arguments |-> 0, source |-> 0]

Leaf(type, text) ==
    [type |-> type, text |-> text, children |-> <<>>, fields |-> NoFields]

Token(char) == Leaf(char, <<char>>)

Inner(type, children, fields) ==
    [type |-> type, text |-> <<>>, children |-> children, fields |-> fields]

Identifier(text) == Leaf("identifier", text)

\* 'text'
StringNode(text) ==
    Inner("string",
          <<Token("'"), Leaf("string_fragment", text), Token("'")>>,
          NoFields)

\* ( arg )
ArgumentsNode(arg, text) ==
    Inner("arguments",
          <<Token("(")>>
              \o (CASE arg = "string" -> <<StringNode(text)>>
                    [] arg = "identifier" -> <<Identifier(text)>>
                    [] OTHER -> <<>>)
              \o <<Token(")")>>,
          NoFields)

\* callee(arg);
CallStatement(callee, arg, text) ==
    Inner("expression_statement",
          <<Inner("call_expression",
                  <<callee, ArgumentsNode(arg, text)>>,
                  [NoFields EXCEPT !.function = 1, !.arguments = 2]),
            Token(";")>>,
          NoFields)

\* (a)
Condition ==
    Inner("parenthesized_expression",
          <<Token("("), Identifier(<<"a">>), Token(")")>>, NoFields)

\* {}
Block == Inner("statement_block", <<Token("{"), Token("}")>>, NoFields)

EmptyStatement == Inner("empty_statement", <<Token(";")>>, NoFields)

\* the subtree tree-sitter-javascript builds for a statement
ParseStatement(stmt) ==
    CASE stmt.kind = "import" ->
            \* import 'text';
            Inner("import_statement",
                  <<Leaf("import", ImportText), StringNode(stmt.text),
                    Token(";")>>,
                  [NoFields EXCEPT !.source = 2])
      [] stmt.kind = "require" ->
            CallStatement(Identifier(RequireText), stmt.arg, stmt.text)
      [] stmt.kind = "dynamicImport" ->
            CallStatement(Leaf("import", ImportText), stmt.arg, stmt.text)
      [] stmt.kind = "if" ->
            \* if (a) {}
            Inner("if_statement",
                  <<Leaf("if", <<"i", "f">>), Condition, Block>>, NoFields)
      [] stmt.kind = "while" ->
            \* while (a) {}
            Inner("while_statement",
                  <<Leaf("while", <<"w", "h", "i", "l", "e">>), Condition,
                    Block>>,
                  NoFields)
      [] stmt.kind = "for" ->
            \* for (;;) {}
            Inner("for_statement",
                  <<Leaf("for", <<"f", "o", "r">>), Token("("),
                    EmptyStatement, EmptyStatement, Token(")"), Block>>,
                  NoFields)
      [] stmt.kind = "ternary" ->
            \* a ? b : c;
            Inner("expression_statement",
                  <<Inner("ternary_expression",
                          <<Identifier(<<"a">>), Token("?"),
                            Identifier(<<"b">>), Token(":"),
                            Identifier(<<"c">>)>>,
                          NoFields),
                    Token(";")>>,
                  NoFields)

\* parser.parse(content): tree.rootNode
Parse(program) ==
    Inner("program", [i \in 1..Len(program) |-> ParseStatement(program[i])],
          NoFields)

\* node.childForFieldName(name): the child, or nothing
ChildForFieldName(node, name) ==
    IF node.fields[name] = 0 THEN <<>>
    ELSE <<node.children[node.fields[name]]>>

\* traverseTree(node, callback): the nodes in the order callback sees them
RECURSIVE TraverseTree(_), TraverseChildren(_, _)
TraverseTree(node) == <<node>> \o TraverseChildren(node, 1)

TraverseChildren(node, i) ==
    IF i > Len(node.children) THEN <<>>
    ELSE TraverseTree(node.children[i]) \o TraverseChildren(node, i + 1)

\* content.slice(node.startIndex, node.endIndex), white space aside
RECURSIVE GetNodeText(_), TextOfChildren(_, _)
GetNodeText(node) ==
    IF node.children = <<>> THEN node.text ELSE TextOfChildren(node, 1)

TextOfChildren(node, i) ==
    IF i > Len(node.children) THEN <<>>
    ELSE GetNodeText(node.children[i]) \o TextOfChildren(node, i + 1)

\* text.replace(/['"]/g, '')
StripQuotes(text) == SelectSeq(text, LAMBDA c : c \notin QuoteChars)

DriveLetters == {"C", "c"}
Separators == {"/", "\\"}

\* path.isAbsolute(p) of path.posix and of path.win32
IsAbsolute(platform, p) ==
    /\ Len(p) > 0
    /\ IF platform = "win32"
       THEN \/ p[1] \in Separators
            \/ /\ Len(p) > 2
               /\ p[1] \in DriveLetters
               /\ p[2] = ":"
               /\ p[3] \in Separators
       ELSE p[1] = "/"

\* mutant: every module counts as external
IsExternalModuleAlways(platform, moduleName) == TRUE

IsExternalModule(platform, moduleName) ==
    /\ ~StartsWith(moduleName, <<".">>)
    /\ ~StartsWith(moduleName, <<"/">>)
    /\ ~IsAbsolute(platform, moduleName)

\* BaseLanguageAnalyzer.createDependency, the location left out
CreateDependency(source, target, type, isExternal) ==
    [source |-> source, target |-> target, type |-> type,
     isResolved |-> FALSE, isExternal |-> isExternal]

ExtractImportDependencies(node, filePath, platform) ==
    LET sourceNode == ChildForFieldName(node, "source")
    IN  IF sourceNode # <<>>
        THEN LET source == StripQuotes(GetNodeText(sourceNode[1]))
             IN  <<CreateDependency(filePath, source, "import",
                                    IsExternalModule(platform, source))>>
        ELSE <<>>

\* extractRequireDependencies and extractDynamicImports, which differ in the
\* callee's text and the kind of the Dependency
ExtractCallDependencies(node, filePath, platform, calleeText, kind) ==
    LET functionNode == ChildForFieldName(node, "function")
        argumentsNode == ChildForFieldName(node, "arguments")
    IN  IF /\ functionNode # <<>>
           /\ GetNodeText(functionNode[1]) = calleeText
           /\ argumentsNode # <<>>
           /\ Len(argumentsNode[1].children) > 0
           \* const firstArg = argumentsNode.child(0)
           /\ argumentsNode[1].children[1].type = "string"
        THEN LET source ==
                     StripQuotes(GetNodeText(argumentsNode[1].children[1]))
             IN  <<CreateDependency(filePath, source, kind,
                                    IsExternalModule(platform, source))>>
        ELSE <<>>

ExtractRequireDependencies(node, filePath, platform) ==
    ExtractCallDependencies(node, filePath, platform, RequireText, "require")

ExtractDynamicImports(node, filePath, platform) ==
    ExtractCallDependencies(node, filePath, platform, ImportText,
                            "dynamic-import")

\* the callback of extractDependencies: switch (node.type), whose first
\* matching case runs
DependenciesOfNode(node, filePath, platform) ==
    IF node.type = "import_statement"
    THEN ExtractImportDependencies(node, filePath, platform)
    ELSE IF node.type = "call_expression"
    THEN ExtractRequireDependencies(node, filePath, platform)
    ELSE IF node.type = "call_expression"
    THEN ExtractDynamicImports(node, filePath, platform)
    ELSE <<>>

RECURSIVE DependenciesOfNodes(_, _, _)
DependenciesOfNodes(nodes, filePath, platform) ==
    IF nodes = <<>> THEN <<>>
    ELSE DependenciesOfNode(Head(nodes), filePath, platform)
         \o DependenciesOfNodes(Tail(nodes), filePath, platform)

\* extractDependencies(filePath) on a file holding program; ok: readFile
\* and parser.parse both succeed
ExtractDependencies(program, filePath, platform, ok) ==
    IF ok
    THEN DependenciesOfNodes(TraverseTree(Parse(program)), filePath, platform)
    ELSE <<>>

NodeTypes(nodes) == [i \in 1..Len(nodes) |-> nodes[i].type]

\* calculateComplexity(filePath) on a file holding program
ComplexityOfFile(program, ok) ==
    IF ok
    THEN CalculateComplexity(NodeTypes(TraverseTree(Parse(program))))
    ELSE FailedComplexity

JsIdle ==
    [op |-> "none", program |-> <<>>, platform |-> "any", ok |-> TRUE,
     dependencies |-> <<>>, metrics |-> FailedComplexity]

InitJs == js = JsIdle

\* one call of extractDependencies, from start to settlement
ExtractDependenciesCall(program, platform, ok) ==
    js' = [op |-> "extractDependencies", program |-> program,
           platform |-> platform, ok |-> ok,
           dependencies |-> ExtractDependencies(program, AppJs, platform, ok),
           metrics |-> FailedComplexity]

\* one call of calculateComplexity, from start to settlement, which is the
\* same on any platform
CalculateComplexityCall(program, ok) ==
    js' = [op |-> "calculateComplexity", program |-> program,
           platform |-> "any", ok |-> ok,
           dependencies |-> <<>>,
           metrics |-> ComplexityOfFile(program, ok)]

NextJs ==
    \/ /\ js = JsIdle
       /\ \E program \in Programs, platform \in Platforms, ok \in BOOLEAN :
              ExtractDependenciesCall(program, platform, ok)
    \/ /\ js = JsIdle
       /\ \E program \in Programs, ok \in BOOLEAN :
              CalculateComplexityCall(program, ok)

-----------------------------------------------------------------------------
(* ProjectScanner: buildStructureTree over a small file system *)

MaxNest == 12              \* deepest chain of nested directories tried
DefaultDepth == 10         \* options.depth ?? 10

\* options.depth: <<>> is "not given"
DepthOptions == {<<>>, <<0>>, <<1>>, <<2>>}

\* A file system below the project root Cwd: a chain d/d/.../d of `nest`
\* nested directories; the root holds `rootFiles` files (g, then e.., then
\* f) and every nested directory `subFiles` files.  With `sideDir` the root
\* also holds a directory c with one file g; with `locked` the first
\* directory of the chain cannot be read (readdir fails with EACCES).
\* The shape is part of the inputs tried.
FsShapes ==
    [nest : 0..MaxNest, rootFiles : 0..3, subFiles : 0..1,
     sideDir : BOOLEAN, locked : BOOLEAN]

RECURSIVE DirPath(_)
DirPath(k) == IF k = 0 THEN Cwd ELSE DirPath(k - 1) \o <<"/", "d">>

\* "e.." is a legal file name that holds the substring ".."
OddName == <<"e", ".", ".">>

FileNamesOf(count) ==
    SubSeq(<<(<<"g">>), OddName, (<<"f">>)>>, 1, count)

SideDirPath == Cwd \o <<"/", "c">>

FsIsDirectory(fs, p) ==
    \/ \E k \in 0..fs.nest : p = DirPath(k)
    \/ fs.sideDir /\ p = SideDirPath

\* the files directly inside directory p, in directory order
FsFilesIn(fs, p) ==
    LET names == IF p = Cwd THEN FileNamesOf(fs.rootFiles)
                 ELSE IF p = SideDirPath THEN FileNamesOf(1)
                 ELSE FileNamesOf(fs.subFiles)
    IN  IF FsIsDirectory(fs, p)
        THEN [i \in 1..Len(names) |-> p \o <<"/">> \o names[i]]
        ELSE <<>>

\* depth of the deepest node of the tree, the root being at depth 0
FsDepth(fs) ==
    IF fs.subFiles > 0 /\ fs.nest > 0 THEN fs.nest + 1
    ELSE IF fs.nest > 1 THEN fs.nest
    ELSE IF fs.sideDir THEN 2
    ELSE IF fs.nest > 0 \/ fs.rootFiles > 0 THEN 1
    ELSE 0

Reverse(s) == [i \in 1..Len(s) |-> s[Len(s) + 1 - i]]

\* fileUtils.getAllFiles(dir, { includePatterns: ['*'], maxDepth: 1 }):
\* fast-glob on dir/* with deep: 1 and onlyFiles: true yields the files
\* directly inside dir, never a directory, in an order glob does not specify
GetAllFilesImmediate(fs, reversed, dir) ==
    IF reversed THEN Reverse(FsFilesIn(fs, dir)) ELSE FsFilesIn(fs, dir)

\* path.join(currentPath, path.relative(currentPath, file).split(sep)[0])
ImmediateChild(currentPath, file) ==
    LET rel == Segments(SubSeq(file, Len(currentPath) + 2, Len(file)))
    IN  currentPath \o <<"/">> \o rel[1]

\* new Set(...) of the immediate children, in insertion order
RECURSIVE ImmediateChildren(_, _, _)
ImmediateChildren(currentPath, files, acc) ==
    IF files = <<>> THEN acc
    ELSE LET c == ImmediateChild(currentPath, Head(files)) IN
         ImmediateChildren(currentPath, Tail(files),
             IF \E i \in 1..Len(acc) : acc[i] = c THEN acc
             ELSE Append(acc, c))

\* path.basename: the last segment
Basename(p) == LET segs == Segments(p) IN segs[Len(segs)]

\* a.name.localeCompare(b.name) < 0, for the names used here
NameRank(name) ==
    CASE name = <<"a">> -> 1
      [] name = <<"c">> -> 2
      [] name = <<"d">> -> 3
      [] name = OddName -> 4
      [] name = <<"f">> -> 5
      [] name = <<"g">> -> 6

RECURSIVE InsertByName(_, _)
InsertByName(sorted, node) ==
    IF sorted = <<>> THEN <<node>>
    ELSE IF NameRank(node.name) < NameRank(Head(sorted).name)
    THEN <<node>> \o sorted
    ELSE <<Head(sorted)>> \o InsertByName(Tail(sorted), node)

\* children.sort((a, b) => a.name.localeCompare(b.name)): stable
RECURSIVE SortByName(_)
SortByName(children) ==
    IF children = <<>> THEN <<>>
    ELSE InsertByName(SortByName(SubSeq(children, 1, Len(children) - 1)),
                      children[Len(children)])

TreeThrew(msg) == [threw |-> TRUE, error |-> msg, node |-> <<>>]
TreeReturned(node) == [threw |-> FALSE, error |-> "", node |-> <<node>>]

RECURSIVE BuildStructureRecursive(_, _, _, _, _)
RECURSIVE BuildChildren(_, _, _, _, _, _)

\* the for loop over immediateChildren inside the try block: a child that
\* throws ends the loop, and the catch keeps the children pushed so far
BuildChildren(fs, reversed, childPaths, maxDepth, depth, children) ==
    IF childPaths = <<>> THEN children
    ELSE LET child == BuildStructureRecursive(fs, reversed, Head(childPaths),
                                              maxDepth, depth)
         IN  IF child.threw THEN children
             ELSE BuildChildren(fs, reversed, Tail(childPaths), maxDepth,
                                depth, Append(children, child.node[1]))

\* fs.readdir of the directory succeeds
FsReadable(fs, dir) == ~(fs.locked /\ fs.nest > 0 /\ dir = DirPath(1))

BuildStructureRecursive(fs, reversed, currentPath, maxDepth, depth) ==
    LET validation == ValidatePath(currentPath) IN
    IF depth > maxDepth THEN TreeThrew("Maximum depth exceeded")
    ELSE IF FsIsDirectory(fs, currentPath) THEN
        \* getAllFiles throws inside the try block on a path it rejects or
        \* a directory it cannot read: no child is built
        LET files == IF validation.isValid /\ FsReadable(fs, currentPath)
                     THEN GetAllFilesImmediate(fs, reversed, currentPath)
                     ELSE <<>>
            immediateChildren == ImmediateChildren(currentPath, files, <<>>)
            children == BuildChildren(fs, reversed, immediateChildren,
                                      maxDepth, depth + 1, <<>>)
        IN  \* getDirectoryInfo, after the try block
            IF ~validation.isValid THEN TreeThrew(validation.error)
            ELSE IF ~FsReadable(fs, currentPath) THEN TreeThrew("EACCES")
            ELSE TreeReturned([path |-> currentPath,
                               name |-> Basename(currentPath),
                               type |-> "directory",
                               children |-> SortByName(children)])
    \* getFileInfo
    ELSE IF ~validation.isValid THEN TreeThrew(validation.error)
    ELSE TreeReturned([path |-> currentPath, name |-> Basename(currentPath),
                       type |-> "file", children |-> <<>>])

TreeIdle ==
    [op |-> "none",
     fs |-> [nest |-> 0, rootFiles |-> 0, subFiles |-> 0,
             sideDir |-> FALSE, locked |-> FALSE],
     reversed |-> FALSE, maxDepth |-> 0, outcome |-> "none", error |-> "",
     structure |-> <<>>]

InitTree == tree = TreeIdle

ProjectPaths == {Cwd, <<"/">>}

\* one call of buildStructureTree(projectPath, { depth }), from start to
\* settlement, on file system fs
BuildStructureTreeCall(fs, reversed, projectPath, depthOption) ==
    LET validation == ValidatePath(projectPath)
        maxDepth == IF depthOption = <<>> THEN DefaultDepth
                    ELSE depthOption[1]
        built == BuildStructureRecursive(fs, reversed,
                     validation.normalizedPath, maxDepth, 0)
    IN  tree' =
          IF ~validation.isValid
          THEN [op |-> "buildStructureTree", fs |-> fs,
                reversed |-> reversed, maxDepth |-> maxDepth,
                outcome |-> "threw", error |-> "Invalid project path",
                structure |-> <<>>]
          ELSE [op |-> "buildStructureTree", fs |-> fs,
                reversed |-> reversed, maxDepth |-> maxDepth,
                outcome |-> IF built.threw THEN "threw" ELSE "returned",
                error |-> built.error, structure |-> built.node]

NextTree ==
    /\ tree = TreeIdle
    /\ \E fs \in FsShapes, reversed \in BOOLEAN, projectPath \in ProjectPaths,
          depthOption \in DepthOptions :
            BuildStructureTreeCall(fs, reversed, projectPath, depthOption)

-----------------------------------------------------------------------------
(* ProjectScanner.detectProjectType *)

MaxJavaDepth == 4          \* deepest directory level a .java file lies at
ProbeDepth == 3            \* maxDepth: 3 of the search for **/*.java

\* mutant: requirements.txt is looked for before package.json
indicatorsPythonFirst ==
    <<[file |-> "requirements.txt", type |-> "python"],
      [file |-> "package.json", type |-> "nodejs"],
      [file |-> "pyproject.toml", type |-> "python"],
      [file |-> "pom.xml", type |-> "maven"],
      [file |-> "build.gradle", type |-> "gradle"],
      [file |-> "build.gradle.kts", type |-> "gradle"],
      [file |-> "lerna.json", type |-> "monorepo"],
      [file |-> "nx.json", type |-> "monorepo"],
      [file |-> "rush.json", type |-> "monorepo"]>>

indicators ==
    <<[file |-> "package.json", type |-> "nodejs"],
      [file |-> "requirements.txt", type |-> "python"],
      [file |-> "pyproject.toml", type |-> "python"],
      [file |-> "pom.xml", type |-> "maven"],
      [file |-> "build.gradle", type |-> "gradle"],
      [file |-> "build.gradle.kts", type |-> "gradle"],
      [file |-> "lerna.json", type |-> "monorepo"],
      [file |-> "nx.json", type |-> "monorepo"],
      [file |-> "rush.json", type |-> "monorepo"]>>

IndicatorFiles == {indicators[i].file : i \in 1..Len(indicators)}

\* a project directory: its path, the indicator files fs.access finds in
\* it, the level of its shallowest .java file (0: it has none; 1: directly
\* in the directory) and whether the glob runs without an error
Projects ==
    [path : ProjectPaths, entries : SUBSET IndicatorFiles,
     javaDepth : 0..MaxJavaDepth, globOk : BOOLEAN]

\* fileUtils.exists(path.join(projectPath, file)): no validation, false on
\* any error
Exists(project, file) == file \in project.entries

\* fileUtils.getAllFiles(projectPath, { includePatterns: ['**/*.java'],
\* maxDepth: 3 }): throws, or returns the files found (here: how many)
GetAllJavaFiles(project) ==
    IF ~ValidatePath(project.path).isValid \/ ~project.globOk
    THEN [threw |-> TRUE, length |-> 0]
    ELSE [threw |-> FALSE,
          length |-> IF project.javaDepth \in 1..ProbeDepth THEN 1 ELSE 0]

\* for (const indicator of indicators): the type returned from the loop, or
\* nothing
RECURSIVE FirstIndicator(_, _)
FirstIndicator(project, i) ==
    IF i > Len(indicators) THEN <<>>
    ELSE IF Exists(project, indicators[i].file) THEN <<indicators[i].type>>
    ELSE FirstIndicator(project, i + 1)

DetectProjectType(project) ==
    LET found == FirstIndicator(project, 1)
        files == GetAllJavaFiles(project)
    IN  IF found # <<>> THEN [outcome |-> "returned", type |-> found[1]]
        ELSE IF files.threw THEN [outcome |-> "returned", type |-> "unknown"]
        ELSE IF files.length > 0
        THEN [outcome |-> "returned", type |-> "java"]
        ELSE [outcome |-> "returned", type |-> "unknown"]

DetectIdle == [op |-> "none", project |-> <<>>, outcome |-> "none", type |-> ""]

InitDetect == detect = DetectIdle

\* one call of detectProjectType, from start to settlement
DetectProjectTypeCall(project) ==
    detect' = [op |-> "detectProjectType", project |-> <<project>>,
               outcome |-> DetectProjectType(project).outcome,
               type |-> DetectProjectType(project).type]

NextDetect ==
    /\ detect = DetectIdle
    /\ \E project \in Projects : DetectProjectTypeCall(project)

-----------------------------------------------------------------------------
(* AnalyzerRegistry *)

MaxRegisters == 3          \* register calls after construction

\* extensions are sequences of characters
DotJs == <<".", "j", "s">>
DotJsx == <<".", "j", "s", "x">>
DotMjs == <<".", "m", "j", "s">>
DotCjs == <<".", "c", "j", "s">>
DotTs == <<".", "t", "s">>
DotTsx == <<".", "t", "s", "x">>
DotPy == <<".", "p", "y">>
Py == <<"p", "y">>

\* an ILanguageAnalyzer, as far as the registry looks at it; id tells the
\* objects apart
Analyzer(id, lang, extensions, priority) ==
    [id |-> id, language |-> lang, supportedExtensions |-> extensions,
     priority |-> priority]

\* new JavaScriptAnalyzer(), new TypeScriptAnalyzer()
DefaultAnalyzers ==
    <<Analyzer("JavaScriptAnalyzer", "javascript",
               <<DotJs, DotJsx, DotMjs, DotCjs>>, 1),
      Analyzer("TypeScriptAnalyzer", "typescript", <<DotTs, DotTsx>>, 2)>>

\* the analyzers callers register: one taking over a language and an
\* extension with a lower priority, one for a new language, one that
\* writes its extension without the dot, one claiming the extension of
\* another language
CustomAnalyzers ==
    {Analyzer("plainJs", "javascript", <<DotJs>>, 0),
     Analyzer("python", "python", <<DotPy>>, 3),
     Analyzer("pythonNoDot", "python", <<Py>>, 1),
     Analyzer("tsAndJs", "typescript", <<DotTs, DotJs>>, 5)}

LookupLanguages == {"javascript", "typescript", "python", "ruby"}
LookupExtensions ==
    {DotJs, Tail(DotJs), DotMjs, DotTs, Tail(DotTs), DotPy, Py,
     <<".", "r", "b">>, <<"r", "b">>}

\* mutant: the first value set for a key stays
MapSetIfAbsent(map, key, value) ==
    [k \in DOMAIN map \cup {key} |->
        IF k \in DOMAIN map THEN map[k] ELSE value]

\* Map.prototype.set
MapSet(map, key, value) ==
    [k \in DOMAIN map \cup {key} |-> IF k = key THEN value ELSE map[k]]

\* Map.prototype.get(key) || null: the value, or nothing
MapGet(map, key) == IF key \in DOMAIN map THEN <<map[key]>> ELSE <<>>

\* analyzer.supportedExtensions.forEach(ext => extensionMap.set(ext,
\* analyzer))
RECURSIVE SetEach(_, _, _)
SetEach(map, extensions, analyzer) ==
    IF extensions = <<>> THEN map
    ELSE SetEach(MapSet(map, Head(extensions), analyzer), Tail(extensions),
                 analyzer)

\* the two maps after register(analyzer)
Registered(maps, analyzer) ==
    [analyzers |-> MapSet(maps.analyzers, analyzer.language, analyzer),
     extensionMap |-> SetEach(maps.extensionMap,
                              analyzer.supportedExtensions, analyzer)]

\* registerDefaultAnalyzers(), on the empty maps of a new registry
RECURSIVE RegisteredAll(_, _)
RegisteredAll(maps, list) ==
    IF list = <<>> THEN maps
    ELSE RegisteredAll(Registered(maps, Head(list)), Tail(list))

NoLookup == [op |-> "none", arg |-> <<>>, result |-> <<>>]

\* the registry after its constructor
InitRegistry ==
    registry = [maps |-> RegisteredAll([analyzers |-> EmptyMap,
                                        extensionMap |-> EmptyMap],
                                       DefaultAnalyzers),
                registered |-> DefaultAnalyzers,
                last |-> NoLookup]

\* register(analyzer); registered is the list of the analyzers registered
\* so far, oldest first
Register(analyzer) ==
    registry' = [maps |-> Registered(registry.maps, analyzer),
                 registered |-> Append(registry.registered, analyzer),
                 last |-> NoLookup]

GetAnalyzer(maps, lang) == MapGet(maps.analyzers, lang)

\* extension.startsWith('.') ? extension : `.${extension}`
NormalizedExt(extension) ==
    IF StartsWith(extension, <<".">>) THEN extension
    ELSE <<".">> \o extension

GetAnalyzerByExtension(maps, extension) ==
    MapGet(maps.extensionMap, NormalizedExt(extension))

GetAnalyzerCall(lang) ==
    registry' = [registry EXCEPT
                    !.last = [op |-> "getAnalyzer", arg |-> lang,
                              result |-> GetAnalyzer(registry.maps, lang)]]

GetAnalyzerByExtensionCall(extension) ==
    registry' = [registry EXCEPT
                    !.last = [op |-> "getAnalyzerByExtension",
                              arg |-> extension,
                              result |-> GetAnalyzerByExtension(
                                             registry.maps, extension)]]

NextRegistry ==
    \/ /\ Len(registry.registered) < Len(DefaultAnalyzers) + MaxRegisters
       /\ \E analyzer \in CustomAnalyzers : Register(analyzer)
    \/ /\ registry.last = NoLookup
       /\ \E lang \in LookupLanguages : GetAnalyzerCall(lang)
    \/ /\ registry.last = NoLookup
       /\ \E extension \in LookupExtensions :
              GetAnalyzerByExtensionCall(extension)

-----------------------------------------------------------------------------
(* AnalyzeProjectTool.execute, on the cache *)

MaxExecs == 2              \* executions of the tool in one behaviour
DefaultKeyDepth == 3       \* depth: params.depth ?? 3 of generateCacheKey

\* the TTL execute passes to set, one hour: twice the default memoryTtl
ToolTtl == 2 * memoryTtl

\* params.depth: <<>> is "not given"
ToolParams == [projectPath : {"/a", ""}, depth : {<<>>, <<0>>, <<3>>, <<5>>}]

\* validateParams accepts the parameters
ValidParams(params) ==
    /\ params.projectPath # ""
    /\ params.depth # <<>> => params.depth[1] >= 1 /\ params.depth[1] <= 20

\* `analyze-project:${JSON.stringify(keyData)}` for the parameters tried
GenerateCacheKey(params) ==
    LET depth == IF params.depth = <<>> THEN DefaultKeyDepth
                 ELSE params.depth[1]
    IN  CASE depth = 3 -> "analyze-project:/a:3"
          [] depth = 5 -> "analyze-project:/a:5"

\* the depth performAnalysis hands to scanProject and buildStructureTree is
\* params.depth, which buildStructureRecursive defaults with ?? 10
EffectiveDepth(params) ==
    IF params.depth = <<>> THEN DefaultDepth ELSE params.depth[1]

\* ranWith: for each analysis stored so far, the depth it was made with;
\* changed: whether the cache lookup of the latest execution changed a tier
ToolIdle ==
    [phase |-> "idle", params |-> [projectPath |-> "", depth |-> <<>>],
     n |-> 0, last |-> <<>>, prev |-> <<>>, ranWith |-> <<>>,
     changed |-> FALSE]

InitTool == tool = ToolIdle

\* what an execution returned: metadata.cacheHit, data.analysis, and, for
\* the reading of the results, the timestamp of the cache entry it stored or
\* was served, whether it ran performAnalysis, and when it returned
ToolResult(success, cacheHit, analysis, stamp, scanned, at) ==
    [params |-> tool.params, success |-> success, cacheHit |-> cacheHit,
     analysis |-> analysis, stamp |-> stamp, scanned |-> scanned, at |-> at]

Returns(result) ==
    tool' = [tool EXCEPT !.phase = "idle", !.prev = tool.last,
                         !.last = <<result>>]

\* the result of an execution whose cache get returned, given as lastOp
CachedResultOf(got, params) ==
    [params |-> params, success |-> TRUE, cacheHit |-> TRUE,
     analysis |-> got.result, stamp |-> <<got.entry[1].timestamp>>,
     scanned |-> FALSE, at |-> now]

\* execute: validateParams throws, the catch returns success: false
ExecuteInvalid(params) ==
    /\ tool.phase = "idle"
    /\ tool.n < MaxExecs
    /\ ~ValidParams(params)
    /\ tool' = [tool EXCEPT !.params = params, !.n = @ + 1,
                            !.prev = tool.last, !.changed = FALSE,
                            !.last = <<[params |-> params, success |-> FALSE,
                                        cacheHit |-> FALSE, analysis |-> <<>>,
                                        stamp |-> <<>>, scanned |-> FALSE,
                                        at |-> now]>>]
    /\ UNCHANGED cacheVars

\* execute up to the return or the suspension of cacheManager.get
ExecuteBegin(params) ==
    /\ tool.phase = "idle"
    /\ tool.n < MaxExecs
    /\ ValidParams(params)
    /\ GetBegin(GenerateCacheKey(params))
    /\ tool' = IF lastOp'.op = "get"
               THEN [tool EXCEPT !.params = params, !.n = @ + 1,
                                 !.prev = tool.last,
                                 !.changed = lastOp'.touched,
                                 !.last = <<CachedResultOf(lastOp', params)>>]
               ELSE [tool EXCEPT !.params = params, !.n = @ + 1,
                                 !.changed = getPending'[1].touched,
                                 !.phase = "getting"]

\* the tier-3 read of the awaited get settles
ExecuteGetReads(ok) ==
    /\ tool.phase = "getting"
    /\ GetFileRead(ok)
    /\ UNCHANGED tool

\* the awaited get returns: a cached result is returned, otherwise the
\* analysis starts
ExecuteGetReturns ==
    /\ tool.phase = "getting"
    /\ GetFinish
    /\ LET changed == lastOp'.touched \/ getPending[1].phase = "unlink" IN
       tool' = IF lastOp'.result # <<>>
               THEN [tool EXCEPT !.phase = "idle", !.prev = tool.last,
                                 !.changed = changed,
                                 !.last = <<CachedResultOf(lastOp',
                                                            tool.params)>>]
               ELSE [tool EXCEPT !.phase = "analyzing",
                                 !.changed = changed]

\* mutant: what the failed analysis had assembled is cached before the
\* failure is returned
PerformAnalysisStoresPartial(ok) ==
    /\ tool.phase = "analyzing"
    /\ IF ok THEN tool' = [tool EXCEPT !.phase = "setting"]
                  /\ UNCHANGED cacheVars
       ELSE /\ Set(GenerateCacheKey(tool.params), <<ToolTtl>>)
            /\ tool' = [tool EXCEPT
                    !.phase = "idle", !.prev = tool.last,
                    !.last = <<ToolResult(FALSE, FALSE, <<>>, <<>>, TRUE,
                                          now)>>,
                    !.ranWith = Append(@, EffectiveDepth(tool.params))]

\* performAnalysis settles; ok = FALSE: it threw and the catch returns
\* success: false, with nothing cached
PerformAnalysis(ok) ==
    /\ tool.phase = "analyzing"
    /\ IF ok THEN tool' = [tool EXCEPT !.phase = "setting"]
       ELSE Returns(ToolResult(FALSE, FALSE, <<>>, <<>>, TRUE, now))
    /\ UNCHANGED cacheVars

\* mutant: the analysis is returned without being cached
ExecuteSetSkipped ==
    /\ tool.phase = "setting"
    /\ nSets < MaxSets
    /\ tool' = [tool EXCEPT
                    !.phase = "idle", !.prev = tool.last,
                    !.last = <<ToolResult(TRUE, FALSE, <<nSets + 1>>, <<now>>,
                                          TRUE, now)>>,
                    !.ranWith = Append(@, EffectiveDepth(tool.params))]
    /\ UNCHANGED <<now, memoryCache, nodeCache, fileCache, pendingWrites,
                   getPending, maint, lastOp, clearState>>
    /\ nSets' = nSets + 1

\* cacheManager.set(cacheKey, analysis, 60 * 60 * 1000), then the return
ExecuteSet ==
    /\ tool.phase = "setting"
    /\ Set(GenerateCacheKey(tool.params), <<ToolTtl>>)
    /\ tool' = [tool EXCEPT
                    !.phase = "idle", !.prev = tool.last,
                    !.last = <<ToolResult(TRUE, FALSE, <<nSets'>>, <<now>>,
                                          TRUE, now)>>,
                    !.ranWith = Append(@, EffectiveDepth(tool.params))]

NextTool ==
    \/ /\ tool.phase = "idle"
       /\ \E params \in ToolParams : ExecuteInvalid(params)
    \/ /\ tool.phase = "idle"
       /\ \E params \in ToolParams : ExecuteBegin(params)
    \/ \E ok \in BOOLEAN : ExecuteGetReads(ok)
    \/ ExecuteGetReturns
    \/ \E ok \in BOOLEAN : PerformAnalysis(ok)
    \/ ExecuteSet
    \/ \E w \in pendingWrites : FileWriteDone(w) /\ UNCHANGED tool
    \/ \E w \in pendingWrites : FileWriteFail(w) /\ UNCHANGED tool
    \/ Tick /\ UNCHANGED tool
    \/ Idle /\ UNCHANGED tool
    \/ NodeSweep /\ UNCHANGED tool

-----------------------------------------------------------------------------
(* Specifications *)

InitAll ==
    /\ InitCache /\ InitPath /\ InitAnalyze /\ InitTree /\ InitTool
    /\ InitJs /\ InitDetect /\ InitRegistry

NextPath ==
    \/ /\ fu = FuIdle
       /\ \E p \in Paths : ValidatePathCall(p)
    \/ /\ fu = FuIdle
       /\ \E op \in GuardedOps, p \in Paths, fsOk \in BOOLEAN :
             GuardedCall(op, p, fsOk)
    \/ /\ fu = FuIdle
       /\ \E op \in UnguardedOps, p \in Paths, fsOk \in BOOLEAN :
             UnguardedCall(op, p, fsOk)

SpecPath ==
    InitAll /\ [][NextPath /\ UNCHANGED exceptPath]_vars

SpecAnalyze ==
    InitAll /\ [][NextAnalyze /\ UNCHANGED exceptAnalyze]_vars

\* an await of analyzeBatch resumes once the promises it waits for settle
SpecAnalyzeLive ==
    /\ SpecAnalyze
    /\ WF_vars(FileSettled /\ UNCHANGED exceptAnalyze)
    /\ WF_vars(ChunkSettled /\ UNCHANGED exceptAnalyze)
    /\ WF_vars(AnalyzeBatchReturn
                 /\ UNCHANGED exceptAnalyze)

SpecTree ==
    InitAll /\ [][NextTree /\ UNCHANGED exceptTree]_vars

SpecTool ==
    InitAll /\ [][NextTool /\ UNCHANGED exceptTool]_vars

SpecJs ==
    InitAll /\ [][NextJs /\ UNCHANGED exceptJs]_vars

SpecDetect ==
    InitAll /\ [][NextDetect /\ UNCHANGED exceptDetect]_vars

SpecRegistry ==
    InitAll /\ [][NextRegistry /\ UNCHANGED exceptRegistry]_vars

-----------------------------------------------------------------------------
(* Specifications of the cache *)

\* one key under a moving clock: expiry in each tier, promotion, restart
TtlKeys == {"user:1"}

NextCacheTtl ==
    \/ \E k \in TtlKeys, t \in TtlArgs : Set(k, t)
    \/ \E w \in pendingWrites : FileWriteDone(w)
    \/ \E w \in pendingWrites : FileWriteFail(w)
    \/ \E k \in TtlKeys : GetBegin(k)
    \/ \E ok \in BOOLEAN : GetFileRead(ok)
    \/ GetFinish
    \/ Tick
    \/ NodeSweep
    \/ Restart

SpecCacheTtl ==
    InitAll /\ [][NextCacheTtl /\ UNCHANGED exceptCache]_vars

\* every public operation on two keys at one instant of the clock
NextCacheOps ==
    \/ \E k \in Keys : Set(k, <<>>)
    \/ \E w \in pendingWrites : FileWriteDone(w)
    \/ \E w \in pendingWrites : FileWriteFail(w)
    \/ \E k \in Keys : GetBegin(k)
    \/ \E ok \in BOOLEAN : GetFileRead(ok)
    \/ GetFinish
    \/ \E k \in Keys, ok \in BOOLEAN : Has(k, ok)
    \/ \E ok \in BOOLEAN : Size(ok)
    \/ \E p \in Patterns : InvalidateBegin(p)
    \/ \E ok \in BOOLEAN : InvalidateFiles(ok)
    \/ ClearBegin
    \/ \E ok \in BOOLEAN : ClearFiles(ok)

SpecCacheOps ==
    InitAll /\ [][NextCacheOps /\ UNCHANGED exceptCache]_vars

\* one key, looked up with has and with get while the clock advances
NextCacheHas ==
    \/ NextCacheTtl
    \/ \E k \in TtlKeys, ok \in BOOLEAN : Has(k, ok)

SpecCacheHas ==
    InitAll /\ [][NextCacheHas /\ UNCHANGED exceptCache]_vars

\* two keys competing for tier 1 while the clock advances; 1750: a ttl that
\* is not a whole number of seconds
LruTtlArgs == {<<>>, <<1750>>}

NextCacheLru ==
    \/ \E k \in Keys, t \in LruTtlArgs : Set(k, t)
    \/ \E w \in pendingWrites : FileWriteDone(w)
    \/ \E w \in pendingWrites : FileWriteFail(w)
    \/ \E k \in Keys : GetBegin(k)
    \/ \E ok \in BOOLEAN : GetFileRead(ok)
    \/ GetFinish
    \/ Tick
    \/ NodeSweep

SpecCacheLru ==
    InitAll /\ [][NextCacheLru /\ UNCHANGED exceptCache]_vars

-----------------------------------------------------------------------------
(* Claims about the cache *)

\* C1: a get(K) issued immediately after set(K, V) returns V (for a ttl that
\* has not already elapsed at the set, i.e. ttl > 0), and a get never returns
\* a value whose entry's TTL has elapsed (now - timestamp >= ttl), whichever
\* tier served it.
C1_SetGetWithinTtl ==
    lastOp.op = "get" =>
        /\ (lastOp.after # <<>> /\ lastOp.after[1].ttl > 0
              => lastOp.result = <<lastOp.after[1].value>>)
        /\ (lastOp.result # <<>>
              => /\ lastOp.entry # <<>>
                 /\ lastOp.result = <<lastOp.entry[1].value>>
                 /\ now - lastOp.entry[1].timestamp < lastOp.entry[1].ttl)

\* a get has just missed although tier 1 still holds the key's entry, whose
\* positive TTL has elapsed
C1_Witness ==
    /\ lastOp.op = "get"
    /\ lastOp.result = <<>>
    /\ \E i \in 1..Len(memoryCache) :
          /\ memoryCache[i].k = HashKey(lastOp.key)
          /\ memoryCache[i].e.ttl > 0
          /\ now - memoryCache[i].e.timestamp >= memoryCache[i].e.ttl

\* a valid hit for hk in tier 1 / tier 2 of the current state
Tier1Hit(hk) ==
    \E i \in 1..Len(memoryCache) :
        /\ memoryCache[i].k = hk
        /\ now - memoryCache[i].start <= memoryTtl
        /\ now - memoryCache[i].e.timestamp < memoryCache[i].e.ttl

Tier2Hit(hk) ==
    /\ hk \in DOMAIN nodeCache
    /\ (nodeCache[hk].t = 0 \/ nodeCache[hk].t >= now)
    /\ now - nodeCache[hk].e.timestamp < nodeCache[hk].e.ttl

NodeEntries(nc) == {[k |-> h, e |-> nc[h].e] : h \in DOMAIN nc}

C2_GetReturns ==
    LET hk == HashKey(lastOp'.key)
        e == lastOp'.entry
    IN lastOp'.op = "get" =>
        /\ lastOp'.tier = 1 =>
              /\ Tier1Hit(hk)
              /\ [k |-> hk, e |-> e[1]] \in MemEntries(memoryCache)
        /\ lastOp'.tier = 2 =>
              /\ ~Tier1Hit(hk)
              /\ Tier2Hit(hk)
              /\ nodeCache[hk].e = e[1]
              /\ [k |-> hk, e |-> e[1]] \in MemEntries(memoryCache')
        /\ lastOp'.tier = 3 =>
              /\ getPending # <<>>
              /\ getPending[1].entry = e
              /\ [k |-> hk, e |-> e[1]] \in MemEntries(memoryCache')
              /\ [k |-> hk, e |-> e[1]] \in NodeEntries(nodeCache')
        /\ lastOp'.tier = 0 =>
              /\ lastOp'.result = <<>>
              /\ memoryCache' = memoryCache
              /\ nodeCache' = nodeCache
        /\ lastOp'.tier # 0 => lastOp'.result = <<e[1].value>>

C2_GetSuspends ==
    getPending = <<>> /\ getPending' # <<>> =>
        LET hk == HashKey(getPending'[1].key) IN
        /\ ~Tier1Hit(hk)
        /\ ~Tier2Hit(hk)
        /\ MemEntries(memoryCache') \subseteq MemEntries(memoryCache)
        /\ NodeEntries(nodeCache') \subseteq NodeEntries(nodeCache)

\* C2 (amended): get consults tier 1, then 2, then 3 and stops at the first
\* valid hit; a tier-2 hit re-inserts the entry into tier 1, a tier-3 hit
\* inserts it into tiers 1 and 2; tier 3 is read only after tiers 1 and 2
\* missed, and a miss in all three returns absent and adds nothing to an
\* in-memory tier (it can only drop the key's expired entry from them).
C2_TierOrderAndPromotion == [][C2_GetReturns /\ C2_GetSuspends]_vars

\* a get has just been served by tier 3 and both in-memory tiers now hold
\* the promoted entry
C2_Witness ==
    /\ lastOp.op = "get"
    /\ lastOp.tier = 3
    /\ [k |-> HashKey(lastOp.key), e |-> lastOp.entry[1]]
          \in MemEntries(memoryCache) \cap NodeEntries(nodeCache)

\* C2 as stated: a get that misses in all three tiers changes no in-memory
\* tier.
C2_MissChangesNoTier ==
    lastOp.op = "get" /\ lastOp.tier = 0 => ~lastOp.touched

InTier1(hk) == \E i \in 1..Len(memoryCache) : memoryCache[i].k = hk

\* C3: once invalidate(pattern) has completed (its file pass succeeded and no
\* set ran meanwhile), no key whose logical key or hashed key matches the
\* pattern is left in any of the three tiers.
C3_InvalidateRemovesMatches ==
    lastOp.op = "invalidate" /\ lastOp.outcome = "ok" /\ ~lastOp.touched =>
        \A k \in Keys :
            RegexTest(lastOp.key, k) \/ RegexTest(lastOp.key, HashKey(k)) =>
                /\ ~InTier1(HashKey(k))
                /\ HashKey(k) \notin DOMAIN nodeCache
                /\ HashKey(k) \notin DOMAIN fileCache

\* C4: once clear() has returned (its file pass succeeded), all three tiers
\* are empty and stay empty until the next set call, whether or not the
\* tier-3 writes of earlier set calls had settled.
C4_ClearEmptiesAllTiers ==
    clearState = "cleared" =>
        /\ memoryCache = <<>>
        /\ nodeCache = EmptyMap
        /\ fileCache = EmptyMap

\* C5: no public operation of the cache throws or rejects.
C5_NeverThrows == lastOp.outcome # "threw"

-----------------------------------------------------------------------------
(* Claims about FileUtils *)

HasDotDotSegment(str) ==
    \E i \in 1..Len(Segments(str)) : Segments(str)[i] = <<".", ".">>

HasNulByte(str) == \E i \in 1..Len(str) : str[i] = NUL

NoSyscall(events) == \A i \in 1..Len(events) : events[i].kind # "syscall"

\* C6: for every path with a ".." segment or a null byte, validatePath
\* reports the path invalid with the traversal error, and no filesystem
\* call is made.
C6_TraversalRejectedWithoutSyscall ==
    fu.op = "validatePath" /\ (HasDotDotSegment(fu.path) \/ HasNulByte(fu.path))
        => /\ ~fu.validation.isValid
           /\ fu.validation.error = "Path traversal detected"
           /\ NoSyscall(fu.events)

\* validatePath has rejected a relative path that climbs out of a directory
\* and would have resolved to an allowed directory
C6_Witness ==
    /\ fu.op = "validatePath"
    /\ HasDotDotSegment(fu.path)
    /\ Resolve(fu.path) = Cwd
    /\ ~fu.validation.isValid

\* C7: in every FileUtils operation that takes a caller-supplied path, the
\* validation has run and accepted the path before the first filesystem
\* syscall on it.
C7_ValidateBeforeSyscall ==
    \A i \in 1..Len(fu.events) :
        fu.events[i].kind = "syscall" =>
            \E j \in 1..(i - 1) :
                fu.events[j].kind = "validate" /\ fu.events[j].ok

-----------------------------------------------------------------------------
(* Claims about the analyzer *)

\* the lists of a FileAnalysis are all empty
ListsEmpty(analysis) ==
    /\ analysis.dependencies = <<>>
    /\ analysis.exports = <<>>
    /\ analysis.imports = <<>>
    /\ analysis.functions = <<>>
    /\ analysis.classes = <<>>
    /\ analysis.variables = <<>>

\* analyzeFile was called on a supported, readable file of zero bytes
ZeroByteCall ==
    /\ fileCall.op = "analyzeFile"
    /\ IsSupported(fileCall.settled[1].filePath)
    /\ Disk[fileCall.settled[1].filePath].readable
    /\ Len(Disk[fileCall.settled[1].filePath].content) = 0

\* C8: for every supported file with zero bytes of content, analyzeFile
\* returns, without parsing, a FileAnalysis whose dependencies, exports,
\* imports, functions, classes and variables are empty and whose
\* metrics.cyclomatic is 1.
C8_ZeroByteFileCyclomaticOne ==
    ZeroByteCall =>
        /\ fileCall.settled[1].status = "fulfilled"
        /\ ~fileCall.settled[1].parsed
        /\ ListsEmpty(fileCall.settled[1].value[1])
        /\ fileCall.settled[1].value[1].metrics.cyclomatic = 1

Succeeds(filePath) == AnalyzeFile(filePath).status = "fulfilled"

\* one FileAnalysis per path of filePaths whose analyzeFile succeeds, in the
\* order of filePaths
ExpectedResults(filePaths) ==
    LET ok == SelectSeq(filePaths, Succeeds)
    IN  [i \in 1..Len(ok) |-> AnalyzeFile(ok[i]).value[1]]

\* C9: for every list of paths and every subset of them whose analysis
\* fails, in any chunk, analyzeBatch terminates without throwing and returns
\* exactly one FileAnalysis for each path whose analyzeFile succeeded: no
\* result is lost or duplicated and no failure aborts a later file or chunk.
C9_BatchKeepsEverySuccess ==
    /\ [](batch.phase = "returned"
            => /\ batch.results = ExpectedResults(batch.filePaths)
               /\ Len(batch.results) + Len(batch.errors)
                     = Len(batch.filePaths))
    /\ (batch.phase = "running" ~> batch.phase = "returned")

\* a batch of two chunks has returned; a file of its first chunk failed and
\* a file of its second chunk succeeded
C9_Witness ==
    /\ batch.phase = "returned"
    /\ Len(batch.chunks) = 2
    /\ \E i \in 1..Len(batch.chunks[1]) : ~Succeeds(batch.chunks[1][i])
    /\ \E i \in 1..Len(batch.chunks[2]) : Succeeds(batch.chunks[2][i])
    /\ batch.results # <<>>

-----------------------------------------------------------------------------
(* Claims about the structure tree *)

\* C10: for every directory tree nested more deeply than options.depth
\* (default 10), buildStructureTree fails with a depth-exceeded error and
\* returns no tree.
C10_DepthExceededIsAnError ==
    (/\ tree.op = "buildStructureTree"
     /\ tree.error # "Invalid project path"
     /\ FsDepth(tree.fs) > tree.maxDepth)
        => /\ tree.outcome = "threw"
           /\ tree.error = "Maximum depth exceeded"

\* every Directory node of the tree has its children in ascending name order
RECURSIVE SortedTree(_)
SortedTree(node) ==
    /\ \A i \in 1..(Len(node.children) - 1) :
          NameRank(node.children[i].name) < NameRank(node.children[i + 1].name)
    /\ \A i \in 1..Len(node.children) : SortedTree(node.children[i])

\* the settled call, had the file listing enumerated in the other order
OtherOrder ==
    BuildStructureRecursive(tree.fs, ~tree.reversed, Cwd, tree.maxDepth, 0)

\* C11: in every tree buildStructureTree returns, the children of each
\* Directory node are in ascending name order, and the tree is the same
\* whichever order the file listing enumerated the entries in.
C11_SortedAndOrderIndependent ==
    tree.outcome = "returned" =>
        /\ SortedTree(tree.structure[1])
        /\ ~OtherOrder.threw
        /\ OtherOrder.node = tree.structure

\* the paths of the nodes of a tree
RECURSIVE TreePaths(_)
TreePaths(node) ==
    {node.path} \cup UNION {TreePaths(node.children[i]) :
                                i \in 1..Len(node.children)}

Range(s) == {s[i] : i \in 1..Len(s)}

\* the nodes of the file system that lie outside the unreadable directory
\* and can be read: the root, its files, and directory c with its file
ReadableNodes(fs) ==
    {Cwd} \cup Range(FsFilesIn(fs, Cwd))
          \cup (IF fs.sideDir
                THEN {SideDirPath} \cup Range(FsFilesIn(fs, SideDirPath))
                ELSE {})

\* C12: if a directory inside the scanned tree cannot be read,
\* buildStructureTree does not fail, and the tree it returns contains every
\* other readable node.  (Stated for file systems without the odd file
\* name, scanned to a depth that covers the readable nodes.)
C12_UnreadableDirectorySkipped ==
    (/\ tree.op = "buildStructureTree"
     /\ tree.error # "Invalid project path"
     /\ tree.fs.locked /\ tree.fs.nest > 0
     /\ tree.fs.rootFiles <= 1
     /\ tree.maxDepth >= 2)
        => /\ tree.outcome = "returned"
           /\ ReadableNodes(tree.fs) \subseteq TreePaths(tree.structure[1])

-----------------------------------------------------------------------------
(* Claims about the analyze_project tool *)

\* the last two executions ran in succession with identical arguments, the
\* first one succeeded, and the second returned within the TTL of the cache
\* entry of the first
TwiceInSuccession ==
    /\ tool.phase = "idle"
    /\ tool.prev # <<>>
    /\ tool.last[1].params = tool.prev[1].params
    /\ tool.prev[1].success
    /\ tool.last[1].at - tool.prev[1].stamp[1] < ToolTtl

\* C13: when the tool is executed twice in succession with identical
\* arguments, the first execution having succeeded, and the second returns
\* within the cache TTL, the second is served from the cache: it reports
\* cacheHit, runs no scan and returns the analysis the first returned.
C13_SecondCallServedFromCache ==
    TwiceInSuccession =>
        /\ tool.last[1].success
        /\ tool.last[1].cacheHit
        /\ ~tool.last[1].scanned
        /\ tool.last[1].analysis = tool.prev[1].analysis

\* the second of two such executions has returned after tier 1 had let the
\* entry go stale (more than memoryTtl after the first one cached it)
C13_Witness ==
    /\ TwiceInSuccession
    /\ ~tool.prev[1].cacheHit
    /\ tool.last[1].at - tool.prev[1].stamp[1] > memoryTtl


-----------------------------------------------------------------------------
(* Claims about the JavaScript analyzer *)

\* extractDependencies returned from its try block
DependenciesExtracted == js.op = "extractDependencies" /\ js.ok

\* the targets of the Dependencies of a kind, in the order they were pushed
TargetsOfKind(dependencies, kind) ==
    LET ofKind == SelectSeq(dependencies, LAMBDA d : d.type = kind)
    IN  [i \in 1..Len(ofKind) |-> ofKind[i].target]

\* the string literals that are the first argument of a call of the
\* given callee, in source order
LiteralArguments(program, callee) ==
    LET calls == SelectSeq(program,
                     LAMBDA s : s.kind = callee /\ s.arg = "string")
    IN  [i \in 1..Len(calls) |-> calls[i].text]

\* C14: for every call expression whose callee is the identifier require
\* and whose first argument is a string literal, extractDependencies yields
\* exactly one Dependency of kind require whose target is that literal, and
\* which is internal for './a'; a require whose first argument is not a
\* string literal yields none.
C14_RequireYieldsOneDependency ==
    DependenciesExtracted =>
        /\ TargetsOfKind(js.dependencies, "require")
              = LiteralArguments(js.program, "require")
        /\ \A i \in 1..Len(js.dependencies) :
              js.dependencies[i].type = "require"
                  /\ js.dependencies[i].target = DotA
                  => ~js.dependencies[i].isExternal

\* C15: for every dynamic import(...) call expression whose first argument
\* is a string literal, extractDependencies yields one Dependency of kind
\* dynamic-import with that literal as target.
C15_DynamicImportYieldsOneDependency ==
    DependenciesExtracted =>
        TargetsOfKind(js.dependencies, "dynamic-import")
            = LiteralArguments(js.program, "dynamicImport")

\* the if, while and for statements and the ternaries of a program
DecisionPoints(program) ==
    SelectSeq(program,
        LAMBDA s : s.kind \in {"if", "while", "for", "ternary"})

\* C16: calculateComplexity returns cyclomatic = 1 + the number of decision
\* points of the file (if, while, for, ternary, ...), each counted once: a
\* file with one if, one for and one ternary has cyclomatic complexity 4.
C16_CyclomaticCountsDecisionPoints ==
    js.op = "calculateComplexity" /\ js.ok =>
        js.metrics.cyclomatic = 1 + Len(DecisionPoints(js.program))


StartsWithDotOrSlash(target) ==
    StartsWith(target, <<".">>) \/ StartsWith(target, <<"/">>)

\* the specifiers of the import statements, in source order
ImportSpecifiers(program) ==
    LET imports == SelectSeq(program, LAMBDA s : s.kind = "import")
    IN  [i \in 1..Len(imports) |-> imports[i].text]

FlagsOf(target) ==
    {js.dependencies[i].isExternal :
        i \in {j \in 1..Len(js.dependencies) :
                  js.dependencies[j].target = target}}

C18_CyclomaticAtLeastOne ==
    /\ fileCall.op = "analyzeFile" /\ fileCall.settled[1].status = "fulfilled"
          => fileCall.settled[1].value[1].metrics.cyclomatic >= 1
    /\ \A i \in 1..Len(batch.results) :
          batch.results[i].metrics.cyclomatic >= 1


-----------------------------------------------------------------------------
(* Claims about detectProjectType *)

\* the marker files and their types, in the order of the specification
MarkerOrder ==
    <<(<<"package.json", "nodejs">>), (<<"requirements.txt", "python">>),
      (<<"pyproject.toml", "python">>), (<<"pom.xml", "maven">>),
      (<<"build.gradle", "gradle">>), (<<"build.gradle.kts", "gradle">>),
      (<<"lerna.json", "monorepo">>), (<<"nx.json", "monorepo">>),
      (<<"rush.json", "monorepo">>)>>

\* the positions in MarkerOrder of the markers present in the project
PresentMarkers(project) ==
    {i \in 1..Len(MarkerOrder) : MarkerOrder[i][1] \in project.entries}

Least(S) == CHOOSE i \in S : \A j \in S : i <= j

\* the search for .java files fails: the project path does not validate,
\* or the glob throws
ProbeFails(project) ==
    ~ValidatePath(project.path).isValid \/ ~project.globOk

\* C19: detectProjectType returns the type of the first marker file present
\* in the order package.json, requirements.txt, pyproject.toml, pom.xml,
\* build.gradle, build.gradle.kts, lerna.json, nx.json, rush.json; with no
\* marker present it returns java if a .java file lies within the probe
\* (three levels) and unknown otherwise; it never throws, a failure
\* yielding unknown.
C19_FirstMarkerInFixedOrder ==
    detect.op = "detectProjectType" =>
        LET project == detect.project[1]
        IN  /\ detect.outcome = "returned"
            /\ detect.type =
                  IF PresentMarkers(project) # {}
                  THEN MarkerOrder[Least(PresentMarkers(project))][2]
                  ELSE IF ProbeFails(project) THEN "unknown"
                  ELSE IF project.javaDepth \in 1..3 THEN "java"
                  ELSE "unknown"

\* a project holding pom.xml, requirements.txt and build.gradle, but no
\* package.json, was detected as python
C19_Witness ==
    /\ detect.op = "detectProjectType"
    /\ detect.project[1].entries
          = {"pom.xml", "requirements.txt", "build.gradle"}
    /\ detect.type = "python"


-----------------------------------------------------------------------------
(* Claims about the analyzer registry *)

\* the analyzer registered last among those of the list that satisfy
\* Test, or nothing
MostRecent(list, Test(_)) ==
    LET found == {i \in 1..Len(list) : Test(list[i])}
    IN  IF found = {} THEN <<>>
        ELSE <<list[CHOOSE i \in found : \A j \in found : j <= i]>>

\* the extensions an analyzer claims
Claimed(analyzer) ==
    {analyzer.supportedExtensions[i] :
        i \in 1..Len(analyzer.supportedExtensions)}

\* the extension passed the other way: without its leading dot, or with one
OtherForm(extension) ==
    IF StartsWith(extension, <<".">>) THEN Tail(extension)
    ELSE <<".">> \o extension

LanguageLookup == registry.last.op = "getAnalyzer"
ExtensionLookup == registry.last.op = "getAnalyzerByExtension"

\* C20: after any sequence of register calls, getAnalyzer(tag) returns the
\* analyzer most recently registered with that language tag, and
\* getAnalyzerByExtension(ext) returns the analyzer most recently
\* registered that claims ext in its form with the leading dot, whatever
\* the priorities, giving the same answer whether ext is passed with or
\* without its leading dot; both return null when there is no such
\* analyzer.
C20_LastRegistrationWins ==
    /\ LanguageLookup =>
          registry.last.result
              = MostRecent(registry.registered,
                           LAMBDA a : a.language = registry.last.arg)
    /\ ExtensionLookup =>
          /\ registry.last.result
                = MostRecent(registry.registered,
                      LAMBDA a : NormalizedExt(registry.last.arg)
                                     \in Claimed(a))
          /\ registry.last.result
                = GetAnalyzerByExtension(registry.maps,
                                         OtherForm(registry.last.arg))

\* C20 as stated: getAnalyzerByExtension(ext) returns the analyzer most
\* recently registered that claims ext, passed with or without its dot.
C20_AnyClaimedExtensionFound ==
    ExtensionLookup =>
        registry.last.result
            = MostRecent(registry.registered,
                  LAMBDA a : Claimed(a) \cap {registry.last.arg,
                                 OtherForm(registry.last.arg)} # {})

\* .js was looked up without its dot after two analyzers claiming it were
\* registered on top of the default one, the one of lower priority last:
\* that one is returned
C20_Witness ==
    /\ ExtensionLookup
    /\ registry.last.arg = Tail(DotJs)
    /\ Len(registry.registered) = Len(DefaultAnalyzers) + 2
    /\ registry.registered[3].id = "tsAndJs"
    /\ registry.registered[4].id = "plainJs"
    /\ registry.last.result = <<registry.registered[4]>>

-----------------------------------------------------------------------------
(* Claims about the cache: concurrent calls, the tiers' lifetimes *)

\* the entries tiers 1 and 2 hold under a hashed key
HeldInMemory(hk) ==
    {memoryCache[i].e : i \in {j \in 1..Len(memoryCache) :
                                  memoryCache[j].k = hk}}
        \cup (IF hk \in DOMAIN nodeCache THEN {nodeCache[hk].e} ELSE {})

\* a get has returned during whose tier-3 read a set of the same key ran,
\* and the tier-3 write of that set has settled
GetOvertakenBySet ==
    lastOp.op = "get" /\ lastOp.during # <<>> /\ pendingWrites = {}

\* C21: when get(K) and set(K, V2) run concurrently, no update is lost:
\* after both have completed, tiers 1 and 2 hold under K the entry written
\* by set(K, V2) and no older one that get promoted from tier 3.
C21_NoLostUpdate ==
    GetOvertakenBySet =>
        HeldInMemory(HashKey(lastOp.key)) \subseteq {lastOp.during[1]}


(* Claims about analyzeBatch: bounded concurrency *)

RECURSIVE Concat(_)
Concat(seqs) == IF seqs = <<>> THEN <<>> ELSE Head(seqs) \o Concat(Tail(seqs))

\* the chunks are consecutive slices of the given size, the last one
\* possibly shorter, none empty
ConsecutiveSlices(chunks, list, size) ==
    /\ Concat(chunks) = list
    /\ \A i \in 1..Len(chunks) :
          /\ Len(chunks[i]) \in 1..size
          /\ i < Len(chunks) => Len(chunks[i]) = size

\* the analyzeFile calls started so far by the running analyzeBatch
StartedSoFar(b) ==
    Len(Concat(SubSeq(b.chunks, 1,
                      IF b.next <= Len(b.chunks) THEN b.next
                      ELSE Len(b.chunks))))

\* C22: within one analyzeBatch call at most 4 analyzeFile calls are in
\* flight at any moment, and the chunks are consecutive slices of the input
\* list of size 4, except possibly the last
C22_AtMostFourInFlight ==
    batch.phase # "idle" =>
        /\ batch.inFlight <= 4
        /\ ConsecutiveSlices(batch.chunks, batch.filePaths, 4)

\* C22: no file of chunk N+1 starts until every file of chunk N has settled
C22_NextChunkWaits ==
    [][(batch.phase = "running" /\ batch'.phase = "running"
            /\ StartedSoFar(batch') > StartedSoFar(batch))
        => batch.inFlight = 0]_vars

C22_Bounded == []C22_AtMostFourInFlight /\ C22_NextChunkWaits

\* the second chunk is in flight, after a first chunk of four
C22_Witness ==
    /\ batch.phase = "running"
    /\ batch.next = 2
    /\ batch.inFlight = 1
    /\ Len(batch.filePaths) = 5


\* get resumes after a tier-3 read that found the file of an entry stored
\* without an explicit ttl, no set of the key having run in between
ResumesWithFileEntry ==
    /\ getPending # <<>>
    /\ getPending' = <<>>
    /\ getPending[1].phase # "read"
    /\ getPending[1].entry # <<>>
    /\ getPending[1].entry[1].ttl = memoryTtl
    /\ getPending[1].during = <<>>
    /\ lastOp'.op = "get"

\* C23: an entry stored without an explicit ttl is a hit in tier 3 until the
\* tier-3 TTL has elapsed since its creation: a get that finds it there
\* before that returns its value
C23_FileTierKeepsItsOwnTtl ==
    [][(ResumesWithFileEntry
            /\ now - getPending[1].entry[1].timestamp < fileTtl)
        => lastOp'.result = <<getPending[1].entry[1].value>>]_vars


\* get(k) is called in this step
GetStarts(k) ==
    /\ getPending = <<>>
    /\ \/ lastOp'.op = "get" /\ lastOp'.key = k
       \/ getPending' # <<>> /\ getPending'[1].key = k

\* the set that has just returned pushed k's record out of tier 1, where
\* it would still be live, and its entry has not expired
JustEvicted(k) ==
    /\ lastOp.op = "set"
    /\ lastOp.evicted # <<>>
    /\ lastOp.evicted[1].k = HashKey(k)
    /\ ~LruStale(lastOp.evicted[1], now)
    /\ IsValidEntry(lastOp.evicted[1].e, now)

\* C24: tier 1 never holds more than maxMemorySize entries, and an unexpired
\* entry evicted from tier 1 is still returned by get, from tier 2, and is
\* thereby back in tier 1: eviction alone never causes a miss
C24_EvictionNeverCausesMiss ==
    /\ [](Len(memoryCache) <= maxMemorySize)
    /\ [][\A k \in Keys :
            (GetStarts(k) /\ JustEvicted(k))
                => /\ lastOp'.op = "get"
                   /\ lastOp'.tier = 2
                   /\ lastOp'.result = <<lastOp.evicted[1].e.value>>
                   /\ LruHas(memoryCache', HashKey(k), now)]_vars


(* Claims about analyzeFile: one read, one tree *)

\* an analyzeFile call has returned the analysis of a parsed file
ParsedAnalysis ==
    /\ fileCall.op = "analyzeFile"
    /\ fileCall.settled[1].status = "fulfilled"
    /\ fileCall.settled[1].parsed

\* C25: one analyzeFile call reads the file and parses it exactly once, and
\* the derived fields are computed from that single tree, so that they
\* describe the same content even if the file is modified meanwhile
C25_OneReadOneTree ==
    ParsedAnalysis =>
        LET analysis == fileCall.settled[1].value[1]
            content == analysis.ast[1]
        IN  /\ fileCall.reads = 1
            /\ fileCall.parses = 1
            /\ analysis.dependencies = NodesOfType(content, "import_statement")
            /\ analysis.metrics = CalculateComplexity(content)


(* Claims about analyze_project: the cache key, failed executions *)

\* an execution has returned a result it was served from the cache
ServedFromCache ==
    /\ tool.phase = "idle"
    /\ tool.last # <<>>
    /\ tool.last[1].success
    /\ tool.last[1].cacheHit

\* C26: two requests map to the same cache key only if they are analyzed
\* with the same effective depth: a cached result is never served to a
\* request whose analysis would run with a different effective depth
C26_ServedAtOwnDepth ==
    ServedFromCache =>
        tool.ranWith[tool.last[1].analysis[1]]
            = EffectiveDepth(tool.last[1].params)


\* the latest execution has returned a failure
FailedExecution ==
    /\ tool.phase = "idle"
    /\ tool.last # <<>>
    /\ ~tool.last[1].success

StepOfUnservedExecution ==
    /\ tool' # tool
    /\ \/ tool'.phase \in {"getting", "analyzing"}
       \/ tool'.phase = "idle" /\ ~tool'.last[1].success

\* the step stores nothing: it starts no tier-3 write and no tier gains or
\* replaces an entry; what a tier held for hk may be gone, having expired
PurgesAtMost(hk) ==
    /\ pendingWrites' = pendingWrites
    /\ nSets' = nSets
    /\ MemEntries(memoryCache') \subseteq MemEntries(memoryCache)
    /\ \A r \in MemEntries(memoryCache) \ MemEntries(memoryCache') :
          r.k = hk /\ ~LruHas(memoryCache, hk, now)
    /\ \/ nodeCache' = nodeCache
       \/ /\ nodeCache' = NodeRemove(nodeCache, hk)
          /\ NodeExpired(nodeCache[hk], now)
    /\ \/ fileCache' = fileCache
       \/ /\ fileCache' = [h \in DOMAIN fileCache \ {hk} |-> fileCache[h]]
          /\ ~IsValidEntry(fileCache[hk], now)

GetWouldReturn(k) ==
    LET hk == HashKey(k) IN
    \/ GetTier(memoryCache, nodeCache, hk, now) # 0
    \/ hk \in DOMAIN fileCache /\ IsValidEntry(fileCache[hk], now)

\* C28: has(K) returns true only if a get(K) issued at the same moment
\* would return a value
C28_HasAgreesWithGet ==
    [][\A k \in Keys :
        (lastOp'.op = "has" /\ lastOp'.key = k /\ lastOp'.result = <<TRUE>>)
            => GetWouldReturn(k)]_vars


(* Claims about the analyzer registry: the two indexes *)

\* whether supportedExtensions lists the extension
Lists(analyzer, extension) ==
    \E i \in 1..Len(analyzer.supportedExtensions) :
        analyzer.supportedExtensions[i] = extension

\* C29: after any sequence of register calls, the analyzer that
\* getAnalyzerByExtension(e) returns lists e in its supportedExtensions and
\* is the analyzer getAnalyzer returns for its own language tag
C29_IndexesConsistent ==
    \A extension \in LookupExtensions :
        LET found == GetAnalyzerByExtension(registry.maps, extension) IN
        found # <<>> =>
            /\ Lists(found[1], NormalizedExt(extension))
            /\ GetAnalyzer(registry.maps, found[1].language) = found


(* Claims about validatePath: the allowed base directories *)

\* the directories from the root down to the resolved path
ResolvedSegments(str) == NormalizeSegs(Segments(Resolve(str)), <<>>)

\* the resolved path is the base directory or lies beneath it
IsWithin(str, basePath) ==
    LET segs == ResolvedSegments(str)
        base == ResolvedSegments(basePath)
    IN  /\ Len(base) <= Len(segs)
        /\ SubSeq(segs, 1, Len(base)) = base

\* C30: validatePath accepts a path only if its resolved absolute form is
\* one of the allowed base directories or lies beneath one of them
C30_AcceptsOnlyWithinBase ==
    (fu.op # "none" /\ fu.validation.isValid)
        => \E basePath \in allowedBasePaths : IsWithin(fu.path, basePath)

=============================================================================
